---- MODULE Spec2Model ----
(***************************************************************************)
(* The in-memory store of the technology radar (class MemStorage): five    *)
(* keyed collections with their id counters, the seeding routine           *)
(* initializeData with its delayed link step, and the store's methods;    *)
(* and the radar view (component RadarVisualization) that loads the        *)
(* technologies, quadrants and rings from the store and searches, filters  *)
(* and plots them.                                                         *)
(*                                                                         *)
(* JavaScript values.  A field that is present holds either null or a      *)
(* value; null is the empty tuple and a value v is the one-element tuple   *)
(* <<v>>, so that null differs from every string, number and array.  An    *)
(* object is a function from its own property names to such fields: a      *)
(* property that is absent (undefined) is not in the function's DOMAIN.    *)
(* Strings are TLA+ strings and arrays are sequences.                      *)
(***************************************************************************)
EXTENDS Integers, Sequences, FiniteSets, TLC

VARIABLES
  technologies,          \* Map<number, Technology>, in insertion order
  quadrants,             \* Map<number, Quadrant>
  rings,                 \* Map<number, Ring>
  projects,              \* Map<number, Project>
  technologyProjects,    \* Map<number, TechnologyProject>
  techCurrentId,
  quadrantCurrentId,
  ringCurrentId,
  projectCurrentId,
  techProjectCurrentId,
  pc,                    \* the statement of initializeData to run next, or "ready"
  idx,                   \* the next entry of the table the current loop walks
  timer,                 \* the setTimeout callback: "unset", "pending" or "fired"
  calls,                 \* how many store methods the boundary has called
  issued,                \* per collection, the ids create has returned so far
  last,                  \* the call that ended last: method, arguments, result
  data,                  \* the view's technologies: the data of its query
  loading,               \* isLoading: a query of the view has no data yet
  viewQuadrants,         \* the view's quadrants
  viewRings,             \* the view's rings
  searchQuery,
  searchResults,         \* null or an array of technologies
  selectedTech,          \* null or a technology
  selectedQuadrant,      \* null or the index of a quadrant
  svg,                   \* what the plot effect drew when it last ran
  handled                \* the handler of the view that ran last

storeVars == <<technologies, quadrants, rings, projects, technologyProjects,
               techCurrentId, quadrantCurrentId, ringCurrentId,
               projectCurrentId, techProjectCurrentId>>
viewVars == <<data, loading, viewQuadrants, viewRings, searchQuery,
              searchResults, selectedTech, selectedQuadrant, svg, handled>>
vars == <<technologies, quadrants, rings, projects, technologyProjects,
          techCurrentId, quadrantCurrentId, ringCurrentId,
          projectCurrentId, techProjectCurrentId, pc, idx, timer, calls,
          issued, last, data, loading, viewQuadrants, viewRings, searchQuery,
          searchResults, selectedTech, selectedQuadrant, svg, handled>>

---------------------------------------------------------------------------
\* Bounds of the model.

\* The boundary calls at most MaxCalls store methods after construction.
MaxCalls == 2
\* Of each table of seed technologies the first SeedTechs entries are loaded.
SeedTechs == 1
\* Before the radar view is opened the boundary makes at most MaxWrites
\* writes to the technologies.
MaxWrites == 1

---------------------------------------------------------------------------
\* JavaScript values and operators.

Null == <<>>
V(x) == <<x>>
Val(field) == field[1]
Has(o, f) == f \in DOMAIN o
EmptyObject == [f \in {} |-> Null]

\* The truthiness of o.f for a field typed string | null | undefined.
TruthyStr(o, f) == Has(o, f) /\ o[f] # Null /\ Val(o[f]) # ""
\* The truthiness of o.f for a field typed string[] | null | undefined:
\* every array is truthy, the empty one included.
TruthyArr(o, f) == Has(o, f) /\ o[f] # Null
\* o.f || null and o.f || [].
OrNullStr(o, f) == IF TruthyStr(o, f) THEN o[f] ELSE Null
OrEmptyArr(o, f) == IF TruthyArr(o, f) THEN o[f] ELSE V(<<>>)
\* The object spread { ...a, ...b }.
Spread(a, b) ==
  [f \in DOMAIN a \cup DOMAIN b |-> IF f \in DOMAIN b THEN b[f] ELSE a[f]]

UpperCase == <<"A","B","C","D","E","F","G","H","I","J","K","L","M",
               "N","O","P","Q","R","S","T","U","V","W","X","Y","Z">>
LowerCase == <<"a","b","c","d","e","f","g","h","i","j","k","l","m",
               "n","o","p","q","r","s","t","u","v","w","x","y","z">>
LowerChar(c) ==
  IF \E i \in 1..Len(UpperCase) : UpperCase[i] = c
  THEN LowerCase[CHOOSE i \in 1..Len(UpperCase) : UpperCase[i] = c]
  ELSE c
\* String.prototype.toLowerCase, character by character (the string is
\* halved at each step, which keeps the evaluation shallow).
RECURSIVE toLowerCase(_)
toLowerCase(s) ==
  IF Len(s) = 0 THEN ""
  ELSE IF Len(s) = 1 THEN LowerChar(s)
  ELSE LET h == Len(s) \div 2 IN
       toLowerCase(SubSeq(s, 1, h)) \o toLowerCase(SubSeq(s, h + 1, Len(s)))
\* String.prototype.includes.
includes(s, q) ==
  \E i \in 0..(Len(s) - Len(q)) : SubSeq(s, i + 1, i + Len(q)) = q
WhiteSpace == {" ", "\t", "\n"}
\* String.prototype.trim: the string between its first and its last
\* character that is not white space.
trim(s) ==
  LET black == {i \in 1..Len(s) : SubSeq(s, i, i) \notin WhiteSpace} IN
  IF black = {} THEN ""
  ELSE SubSeq(s, CHOOSE i \in black : \A j \in black : i <= j,
                 CHOOSE i \in black : \A j \in black : j <= i)

\* Map: a sequence of [key, value] entries in insertion order.
MapHas(m, k) == \E i \in 1..Len(m) : m[i].key = k
MapIndex(m, k) == CHOOSE i \in 1..Len(m) : m[i].key = k
MapSet(m, k, v) ==
  IF MapHas(m, k) THEN [m EXCEPT ![MapIndex(m, k)].value = v]
  ELSE Append(m, [key |-> k, value |-> v])
MapValues(m) == [i \in 1..Len(m) |-> m[i].value]

\* What a method returns: a value, undefined, or a thrown error.
Value(v) == [kind |-> "value", val |-> v]
Undefined == [kind |-> "undefined", val |-> Null]
Throws == [kind |-> "throws", val |-> Null]
\* Map.prototype.get.
MapGet(m, k) == IF MapHas(m, k) THEN Value(m[MapIndex(m, k)].value) ELSE Undefined

\* initializeData, lines 17-39: the quadrants created first
seedQuadrants ==
  << [name |-> <<"Techniques">>, description |-> <<"Elements of a software development process, such as experience design and coding practices">>, color |-> <<"#3b82f6">>],
     [name |-> <<"Tools">>, description |-> <<"Software development tools and supporting services">>, color |-> <<"#8b5cf6">>],
     [name |-> <<"Frameworks">>, description |-> <<"Programming frameworks and foundation libraries">>, color |-> <<"#f97316">>],
     [name |-> <<"Platforms">>, description |-> <<"Things that we build software on top of: infrastructure, databases, etc.">>, color |-> <<"#ec4899">>] >>

\* initializeData, lines 42-64: the rings created next
seedRings ==
  << [name |-> <<"Adopt">>, description |-> <<"We strongly recommend using these technologies when appropriate">>, color |-> <<"#10b981">>],
     [name |-> <<"Trial">>, description |-> <<"These technologies are ready for trial use, but not yet for widespread adoption">>, color |-> <<"#3b82f6">>],
     [name |-> <<"Assess">>, description |-> <<"These technologies are worth exploring to understand how they can be useful">>, color |-> <<"#f59e0b">>],
     [name |-> <<"Hold">>, description |-> <<"Proceed with caution with these technologies">>, color |-> <<"#ef4444">>] >>

\* initializeData, lines 67-115: the technologies created inline
seedTechnologies ==
  << [name |-> <<"Claude Sonnet">>, description |-> <<"AI assistant model from Anthropic">>, quadrant |-> <<1>>, ring |-> <<0>>],
     [name |-> <<"Tuple">>, description |-> <<"Remote pair programming tool">>, quadrant |-> <<1>>, ring |-> <<0>>],
     [name |-> <<"YOLO">>, description |-> <<"Real-time object detection system">>, quadrant |-> <<1>>, ring |-> <<0>>],
     [name |-> <<"D2">>, description |-> <<"Declarative diagramming language">>, quadrant |-> <<1>>, ring |-> <<1>>],
     [name |-> <<"metabase">>, description |-> <<"Business intelligence and analytics tool">>, quadrant |-> <<1>>, ring |-> <<1>>],
     [name |-> <<"Anything LLM">>, description |-> <<"Open-source ChatGPT alternative">>, quadrant |-> <<1>>, ring |-> <<1>>],
     [name |-> <<"GraphRAG">>, description |-> <<"Graph-based Retrieval Augmented Generation">>, quadrant |-> <<0>>, ring |-> <<0>>],
     [name |-> <<"Small language models">>, description |-> <<"Smaller, efficient AI language models">>, quadrant |-> <<0>>, ring |-> <<0>>],
     [name |-> <<"Model Distillation">>, description |-> <<"Technique to create smaller models from larger ones">>, quadrant |-> <<0>>, ring |-> <<0>>],
     [name |-> <<"Prompt Engineering">>, description |-> <<"Designing effective prompts for AI models">>, quadrant |-> <<0>>, ring |-> <<0>>],
     [name |-> <<"Mixed reality">>, description |-> <<"Blend of physical and digital worlds">>, quadrant |-> <<0>>, ring |-> <<0>>],
     [name |-> <<"Ambient Computing">>, description |-> <<"Technology integrated into environment">>, quadrant |-> <<0>>, ring |-> <<0>>],
     [name |-> <<"Explainable AI">>, description |-> <<"AI systems with understandable decisions">>, quadrant |-> <<0>>, ring |-> <<0>>],
     [name |-> <<"Multimodal AI">>, description |-> <<"AI that handles multiple input/output types">>, quadrant |-> <<0>>, ring |-> <<0>>],
     [name |-> <<"Shadow AI mastering">>, description |-> <<"AI mastering process">>, quadrant |-> <<0>>, ring |-> <<0>>],
     [name |-> <<"Quantum computing">>, description |-> <<"Computing based on quantum mechanics">>, quadrant |-> <<0>>, ring |-> <<1>>],
     [name |-> <<"Quantum Sensing">>, description |-> <<"Detecting signals using quantum properties">>, quadrant |-> <<0>>, ring |-> <<1>>],
     [name |-> <<"Edge Computing">>, description |-> <<"Processing data near the source">>, quadrant |-> <<0>>, ring |-> <<1>>],
     [name |-> <<"Adaptive AI">>, description |-> <<"AI that adapts to changing conditions">>, quadrant |-> <<0>>, ring |-> <<1>>],
     [name |-> <<"Advanced Swarm Systems">>, description |-> <<"Decentralized, self-organized systems">>, quadrant |-> <<0>>, ring |-> <<1>>],
     [name |-> <<"Wearable Technologies">>, description |-> <<"Computing devices worn on body">>, quadrant |-> <<0>>, ring |-> <<2>>],
     [name |-> <<"HMO">>, description |-> <<"Health maintenance organization">>, quadrant |-> <<0>>, ring |-> <<2>>],
     [name |-> <<"Digital Identity">>, description |-> <<"Electronic verification of identity">>, quadrant |-> <<0>>, ring |-> <<2>>],
     [name |-> <<"5G/6G">>, description |-> <<"Mobile network technologies">>, quadrant |-> <<0>>, ring |-> <<2>>],
     [name |-> <<"3D Data visualization">>, description |-> <<"Visual representation of data in 3D">>, quadrant |-> <<0>>, ring |-> <<2>>],
     [name |-> <<"Crew AI">>, description |-> <<"AI framework for team collaboration">>, quadrant |-> <<2>>, ring |-> <<0>>],
     [name |-> <<"Langraph">>, description |-> <<"Graph-based framework for language models">>, quadrant |-> <<2>>, ring |-> <<0>>],
     [name |-> <<"Agony">>, description |-> <<"Framework for efficient data processing">>, quadrant |-> <<2>>, ring |-> <<0>>],
     [name |-> <<"Langchain">>, description |-> <<"Framework for developing applications powered by language models">>, quadrant |-> <<2>>, ring |-> <<0>>],
     [name |-> <<"Langsmith">>, description |-> <<"Developer platform for LLM applications">>, quadrant |-> <<2>>, ring |-> <<0>>],
     [name |-> <<"Trino">>, description |-> <<"Distributed SQL query engine">>, quadrant |-> <<3>>, ring |-> <<0>>],
     [name |-> <<"Gitlab CI/CD">>, description |-> <<"Continuous integration and delivery platform">>, quadrant |-> <<3>>, ring |-> <<0>>],
     [name |-> <<"Deepseek R1">>, description |-> <<"AI platform for research">>, quadrant |-> <<3>>, ring |-> <<0>>],
     [name |-> <<"Chain loop">>, description |-> <<"Software supply chain management platform">>, quadrant |-> <<3>>, ring |-> <<0>>],
     [name |-> <<"Railway">>, description |-> <<"Application deployment platform">>, quadrant |-> <<3>>, ring |-> <<1>>] >>

\* defaultTechnologies, lines 123-438 (the part of the table the source holds)
defaultTechnologies ==
  << [name |-> <<"Angular">>, quadrant |-> <<3>>, ring |-> <<1>>, description |-> <<"A platform and framework for building single-page client applications using HTML and TypeScript.">>, website |-> <<"https://angular.io">>, tags |-> <<<<"frontend", "typescript", "framework">>>>, custom_properties |-> <<"{\"ecosystem_size\":\"large\",\"learning_curve\":\"steep\"}">>],
     [name |-> <<"Vue.js">>, quadrant |-> <<3>>, ring |-> <<1>>, description |-> <<"A progressive JavaScript framework for building user interfaces.">>, website |-> <<"https://vuejs.org">>, tags |-> <<<<"frontend", "javascript", "framework">>>>, custom_properties |-> <<"{\"ecosystem_size\":\"medium\",\"learning_curve\":\"gentle\"}">>],
     [name |-> <<"Kubernetes">>, quadrant |-> <<2>>, ring |-> <<0>>, description |-> <<"An open-source container orchestration platform for automating deployment, scaling, and management.">>, website |-> <<"https://kubernetes.io">>, tags |-> <<<<"container", "orchestration", "devops">>>>, custom_properties |-> <<"{\"ecosystem_size\":\"large\",\"learning_curve\":\"steep\"}">>],
     [name |-> <<"Docker">>, quadrant |-> <<1>>, ring |-> <<0>>, description |-> <<"A platform for developing, shipping, and running applications in containers.">>, website |-> <<"https://www.docker.com">>, tags |-> <<<<"container", "devops", "deployment">>>>, custom_properties |-> <<"{\"ecosystem_size\":\"large\",\"learning_curve\":\"medium\"}">>],
     [name |-> <<"TypeScript">>, quadrant |-> <<3>>, ring |-> <<0>>, description |-> <<"A superset of JavaScript that adds static typing and other features to enhance development.">>, website |-> <<"https://www.typescriptlang.org">>, tags |-> <<<<"language", "javascript", "static typing">>>>, custom_properties |-> <<"{\"ecosystem_size\":\"large\",\"learning_curve\":\"medium\"}">>],
     [name |-> <<"GitOps">>, quadrant |-> <<0>>, ring |-> <<1>>, description |-> <<"An operational framework that takes DevOps best practices and applies them to infrastructure automation.">>, website |-> <<"https://www.gitops.tech">>, tags |-> <<<<"devops", "methodology", "infrastructure">>>>, custom_properties |-> <<"{\"ecosystem_size\":\"growing\",\"learning_curve\":\"medium\"}">>],
     [name |-> <<"AWS Lambda">>, quadrant |-> <<2>>, ring |-> <<0>>, description |-> <<"An event-driven, serverless computing platform provided by Amazon Web Services.">>, website |-> <<"https://aws.amazon.com/lambda">>, tags |-> <<<<"serverless", "cloud", "aws">>>>, custom_properties |-> <<"{\"ecosystem_size\":\"large\",\"learning_curve\":\"medium\"}">>],
     [name |-> <<"Azure Functions">>, quadrant |-> <<2>>, ring |-> <<1>>, description |-> <<"Microsoft's serverless solution that enables you to write less code, maintain less infrastructure.">>, website |-> <<"https://azure.microsoft.com/en-us/products/functions">>, tags |-> <<<<"serverless", "cloud", "azure">>>>, custom_properties |-> <<"{\"ecosystem_size\":\"large\",\"learning_curve\":\"medium\"}">>],
     [name |-> <<"Web Assembly">>, quadrant |-> <<3>>, ring |-> <<2>>, description |-> <<"A binary instruction format for a stack-based virtual machine, designed to be a portable compilation target.">>, website |-> <<"https://webassembly.org">>, tags |-> <<<<"browser", "performance", "compilation">>>>, custom_properties |-> <<"{\"ecosystem_size\":\"growing\",\"learning_curve\":\"steep\"}">>],
     [name |-> <<"Jenkins">>, quadrant |-> <<1>>, ring |-> <<3>>, description |-> <<"An open-source automation server that enables developers to build, test, and deploy their software.">>, website |-> <<"https://www.jenkins.io">>, tags |-> <<<<"ci/cd", "automation", "devops">>>>, custom_properties |-> <<"{\"ecosystem_size\":\"large\",\"learning_curve\":\"medium\"}">>],
     [name |-> <<"GitHub Actions">>, quadrant |-> <<1>>, ring |-> <<0>>, description |-> <<"GitHub's built-in continuous integration and continuous delivery (CI/CD) platform.">>, website |-> <<"https://github.com/features/actions">>, tags |-> <<<<"ci/cd", "automation", "github">>>>, custom_properties |-> <<"{\"ecosystem_size\":\"large\",\"learning_curve\":\"gentle\"}">>],
     [name |-> <<"GitLab CI">>, quadrant |-> <<1>>, ring |-> <<1>>, description |-> <<"GitLab's built-in continuous integration service to build, test, and deploy your code.">>, website |-> <<"https://docs.gitlab.com/ee/ci">>, tags |-> <<<<"ci/cd", "automation", "gitlab">>>>, custom_properties |-> <<"{\"ecosystem_size\":\"medium\",\"learning_curve\":\"medium\"}">>],
     [name |-> <<"GraphQL">>, quadrant |-> <<3>>, ring |-> <<1>>, description |-> <<"A query language for APIs and a runtime for executing those queries with your existing data.">>, website |-> <<"https://graphql.org">>, tags |-> <<<<"api", "query language", "data fetching">>>>, custom_properties |-> <<"{\"ecosystem_size\":\"large\",\"learning_curve\":\"medium\"}">>],
     [name |-> <<"REST API">>, quadrant |-> <<3>>, ring |-> <<0>>, description |-> <<"An architectural style for distributed hypermedia systems, commonly used for web services.">>, website |-> <<>>, tags |-> <<<<"api", "web services", "architecture">>>>, custom_properties |-> <<"{\"ecosystem_size\":\"ubiquitous\",\"learning_curve\":\"gentle\"}">>],
     [name |-> <<"Terraform">>, quadrant |-> <<1>>, ring |-> <<0>>, description |-> <<"An open-source infrastructure as code software tool for building, changing, and versioning infrastructure safely and efficiently.">>, website |-> <<"https://www.terraform.io">>, tags |-> <<<<"infrastructure as code", "devops", "automation">>>>, custom_properties |-> <<"{\"ecosystem_size\":\"large\",\"learning_curve\":\"medium\"}">>],
     [name |-> <<"AWS CloudFormation">>, quadrant |-> <<1>>, ring |-> <<1>>, description |-> <<"A service that helps you model and set up your AWS resources so you can spend less time managing those resources and more time focusing on your applications.">>, website |-> <<"https://aws.amazon.com/cloudformation">>, tags |-> <<<<"infrastructure as code", "aws", "cloud">>>>, custom_properties |-> <<"{\"ecosystem_size\":\"large\",\"learning_curve\":\"steep\"}">>],
     [name |-> <<"Rust">>, quadrant |-> <<3>>, ring |-> <<2>>, description |-> <<"A multi-paradigm programming language designed for performance and safety, especially safe concurrency.">>, website |-> <<"https://www.rust-lang.org">>, tags |-> <<<<"language", "systems programming", "performance">>>>, custom_properties |-> <<"{\"ecosystem_size\":\"growing\",\"learning_curve\":\"steep\"}">>],
     [name |-> <<"Go">>, quadrant |-> <<3>>, ring |-> <<0>>, description |-> <<"A statically typed, compiled programming language designed at Google with simplicity and performance in mind.">>, website |-> <<"https://golang.org">>, tags |-> <<<<"language", "backend", "performance">>>>, custom_properties |-> <<"{\"ecosystem_size\":\"large\",\"learning_curve\":\"medium\"}">>],
     [name |-> <<"Kotlin">>, quadrant |-> <<3>>, ring |-> <<1>>, description |-> <<"A cross-platform, statically typed, general-purpose programming language with type inference.">>, website |-> <<"https://kotlinlang.org">>, tags |-> <<<<"language", "jvm", "android">>>>, custom_properties |-> <<"{\"ecosystem_size\":\"medium\",\"learning_curve\":\"gentle\"}">>],
     [name |-> <<"Next.js">>, quadrant |-> <<3>>, ring |-> <<0>>, description |-> <<"A React framework that gives you building blocks to create web applications.">>, website |-> <<"https://nextjs.org">>, tags |-> <<<<"framework", "react", "frontend">>>>, custom_properties |-> <<"{\"ecosystem_size\":\"large\",\"learning_curve\":\"medium\"}">>],
     [name |-> <<"NestJS">>, quadrant |-> <<3>>, ring |-> <<1>>, description |-> <<"A progressive Node.js framework for building efficient, reliable and scalable server-side applications.">>, website |-> <<"https://nestjs.com">>, tags |-> <<<<"framework", "nodejs", "backend">>>>, custom_properties |-> <<"{\"ecosystem_size\":\"growing\",\"learning_curve\":\"medium\"}">>],
     [name |-> <<"TailwindCSS">>, quadrant |-> <<3>>, ring |-> <<0>>, description |-> <<"A utility-first CSS framework for rapidly building custom user interfaces.">>, website |-> <<"https://tailwindcss.com">>, tags |-> <<<<"css", "frontend", "styling">>>>, custom_properties |-> <<"{\"ecosystem_size\":\"large\",\"learning_curve\":\"gentle\"}">>],
     [name |-> <<"PostgreSQL">>, quadrant |-> <<2>>, ring |-> <<0>>, description |-> <<"A powerful, open source object-relational database system with over 30 years of active development.">>, website |-> <<"https://www.postgresql.org">>, tags |-> <<<<"database", "sql", "relational">>>>, custom_properties |-> <<"{\"ecosystem_size\":\"large\",\"learning_curve\":\"medium\"}">>],
     [name |-> <<"MongoDB">>, quadrant |-> <<2>>, ring |-> <<1>>, description |-> <<"A general purpose, document-based, distributed database built for modern application developers.">>, website |-> <<"https://www.mongodb.com">>, tags |-> <<<<"database", "nosql", "document">>>>, custom_properties |-> <<"{\"ecosystem_size\":\"large\",\"learning_curve\":\"gentle\"}">>],
     [name |-> <<"Redis">>, quadrant |-> <<2>>, ring |-> <<0>>, description |-> <<"An open source, in-memory data structure store, used as a database, cache, and message broker.">>, website |-> <<"https://redis.io">>, tags |-> <<<<"database", "cache", "in-memory">>>>, custom_properties |-> <<"{\"ecosystem_size\":\"large\",\"learning_curve\":\"gentle\"}">>],
     [name |-> <<"Drizzle ORM">>, quadrant |-> <<3>>, ring |-> <<2>>, description |-> <<"A lightweight TypeScript ORM with a focus on type safety and developer experience.">>, website |-> <<"https://github.com/drizzle-team/drizzle-orm">>, tags |-> <<<<"orm", "database", "typescript">>>>, custom_properties |-> <<"{\"ecosystem_size\":\"growing\",\"learning_curve\":\"gentle\"}">>],
     [name |-> <<"Prisma">>, quadrant |-> <<3>>, ring |-> <<1>>, description |-> <<"Next-generation ORM for Node.js and TypeScript.">>, website |-> <<"https://www.prisma.io">>, tags |-> <<<<"orm", "database", "typescript">>>>, custom_properties |-> <<"{\"ecosystem_size\":\"large\",\"learning_curve\":\"gentle\"}">>],
     [name |-> <<"Python">>, quadrant |-> <<3>>, ring |-> <<0>>, description |-> <<"A high-level, general-purpose programming language known for its readability and versatility.">>, website |-> <<"https://www.python.org">>, tags |-> <<<<"language", "backend", "data science", "machine learning">>>>, custom_properties |-> <<"{\"ecosystem_size\":\"massive\",\"learning_curve\":\"gentle\"}">>],
     [name |-> <<"Java">>, quadrant |-> <<3>>, ring |-> <<0>>, description |-> <<"A class-based, object-oriented programming language designed for portability and cross-platform development.">>, website |-> <<"https://www.java.com">>, tags |-> <<<<"language", "backend", "enterprise">>>>, custom_properties |-> <<"{\"ecosystem_size\":\"massive\",\"learning_curve\":\"medium\"}">>],
     [name |-> <<"Django">>, quadrant |-> <<3>>, ring |-> <<1>>, description |-> <<"A high-level Python web framework that encourages rapid development and clean, pragmatic design.">>, website |-> <<"https://www.djangoproject.com">>, tags |-> <<<<"framework", "python", "backend", "web">>>>, custom_properties |-> <<"{\"ecosystem_size\":\"large\",\"learning_curve\":\"medium\"}">>],
     [name |-> <<"Flask">>, quadrant |-> <<3>>, ring |-> <<1>>, description |-> <<"A lightweight WSGI web application framework in Python, designed to make getting started quick and easy.">>, website |-> <<"https://flask.palletsprojects.com">>, tags |-> <<<<"framework", "python", "backend", "web", "microservices">>>>, custom_properties |-> <<"{\"ecosystem_size\":\"large\",\"learning_curve\":\"gentle\"}">>],
     [name |-> <<"Spring Boot">>, quadrant |-> <<3>>, ring |-> <<0>>, description |-> <<"An open-source Java-based framework used to create stand-alone, production-grade Spring-based applications.">>, website |-> <<"https://spring.io/projects/spring-boot">>, tags |-> <<<<"framework", "java", "backend", "enterprise">>>>, custom_properties |-> <<"{\"ecosystem_size\":\"large\",\"learning_curve\":\"steep\"}">>],
     [name |-> <<"TensorFlow">>, quadrant |-> <<3>>, ring |-> <<1>>, description |-> <<"An end-to-end open-source platform for machine learning, with a comprehensive ecosystem of tools.">>, website |-> <<"https://www.tensorflow.org">>, tags |-> <<<<"machine learning", "python", "data science", "library">>>>, custom_properties |-> <<"{\"ecosystem_size\":\"large\",\"learning_curve\":\"steep\"}">>],
     [name |-> <<"PyTorch">>, quadrant |-> <<3>>, ring |-> <<1>>, description |-> <<"An open-source machine learning library based on Torch, used for applications such as computer vision and natural language processing.">>, website |-> <<"https://pytorch.org">>, tags |-> <<<<"machine learning", "python", "data science", "library">>>>, custom_properties |-> <<"{\"ecosystem_size\":\"large\",\"learning_curve\":\"medium\"}">>],
     [name |-> <<"Docker Compose">>, quadrant |-> <<1>>, ring |-> <<0>>, description |-> <<"A tool for defining and running multi-container Docker applications.">>, website |-> <<"https://docs.docker.com/compose">>, tags |-> <<<<"container", "docker", "configuration">>>>, custom_properties |-> <<"{\"ecosystem_size\":\"large\",\"learning_curve\":\"gentle\"}">>] >>

\* defaultProjects, lines 441-498
defaultProjects ==
  << [name |-> <<"E-commerce Platform Rewrite">>, description |-> <<"A complete rewrite of our flagship e-commerce platform using modern technologies and architecture.">>, status |-> <<"active">>, website |-> <<"https://example.com/ecommerce">>, repository |-> <<"https://github.com/example/ecommerce-rewrite">>, image |-> <<"https://via.placeholder.com/300x200?text=E-commerce">>],
     [name |-> <<"Internal Dashboard">>, description |-> <<"A dashboard application for internal teams to monitor KPIs and manage operations.">>, status |-> <<"completed">>, website |-> <<"https://dashboard.internal.example.com">>, repository |-> <<"https://github.com/example/internal-dashboard">>, image |-> <<"https://via.placeholder.com/300x200?text=Dashboard">>],
     [name |-> <<"API Gateway">>, description |-> <<"A centralized API gateway for all our services with authentication, rate limiting, and logging.">>, status |-> <<"active">>, website |-> <<>>, repository |-> <<"https://github.com/example/api-gateway">>, image |-> <<"https://via.placeholder.com/300x200?text=API+Gateway">>],
     [name |-> <<"Mobile App">>, description |-> <<"A native mobile application for customers to interact with our services on the go.">>, status |-> <<"planned">>, website |-> <<>>, repository |-> <<"https://github.com/example/mobile-app">>, image |-> <<"https://via.placeholder.com/300x200?text=Mobile+App">>],
     [name |-> <<"Search Service">>, description |-> <<"A specialized search service with advanced filtering, faceting, and ranking.">>, status |-> <<"active">>, website |-> <<>>, repository |-> <<"https://github.com/example/search-service">>, image |-> <<"https://via.placeholder.com/300x200?text=Search+Service">>],
     [name |-> <<"Content Management System">>, description |-> <<"A headless CMS for managing website content, blog posts, and marketing materials.">>, status |-> <<"active">>, website |-> <<"https://cms.example.com">>, repository |-> <<"https://github.com/example/cms">>, image |-> <<"https://via.placeholder.com/300x200?text=CMS">>],
     [name |-> <<"Recommendation Engine">>, description |-> <<"An AI-powered recommendation system using machine learning to personalize user experiences.">>, status |-> <<"active">>, website |-> <<"https://recommendation.example.com">>, repository |-> <<"https://github.com/example/recommendation-engine">>, image |-> <<"https://via.placeholder.com/300x200?text=Recommendation+Engine">>] >>

\* techProjectLinks, lines 526-581
techProjectLinks ==
  << [technology_id |-> <<1>>, project_id |-> <<1>>, notes |-> <<"Main frontend framework">>],
     [technology_id |-> <<6>>, project_id |-> <<1>>, notes |-> <<"Used for type safety">>],
     [technology_id |-> <<21>>, project_id |-> <<1>>, notes |-> <<"Used for frontend styling">>],
     [technology_id |-> <<20>>, project_id |-> <<1>>, notes |-> <<"Used for server-side rendering">>],
     [technology_id |-> <<22>>, project_id |-> <<1>>, notes |-> <<"Main database">>],
     [technology_id |-> <<24>>, project_id |-> <<1>>, notes |-> <<"Used for caching">>],
     [technology_id |-> <<26>>, project_id |-> <<1>>, notes |-> <<"Used for database access">>],
     [technology_id |-> <<1>>, project_id |-> <<2>>, notes |-> <<"Frontend framework">>],
     [technology_id |-> <<6>>, project_id |-> <<2>>, notes |-> <<"Used for type safety">>],
     [technology_id |-> <<21>>, project_id |-> <<2>>, notes |-> <<"Used for styling">>],
     [technology_id |-> <<23>>, project_id |-> <<2>>, notes |-> <<"Database for dashboard data">>],
     [technology_id |-> <<18>>, project_id |-> <<3>>, notes |-> <<"Main language for the gateway">>],
     [technology_id |-> <<24>>, project_id |-> <<3>>, notes |-> <<"Used for rate limiting">>],
     [technology_id |-> <<5>>, project_id |-> <<3>>, notes |-> <<"Used for containerization">>],
     [technology_id |-> <<4>>, project_id |-> <<3>>, notes |-> <<"Used for orchestration">>],
     [technology_id |-> <<19>>, project_id |-> <<4>>, notes |-> <<"Main language for Android">>],
     [technology_id |-> <<6>>, project_id |-> <<4>>, notes |-> <<"Used for type safety in shared code">>],
     [technology_id |-> <<18>>, project_id |-> <<5>>, notes |-> <<"Main implementation language">>],
     [technology_id |-> <<5>>, project_id |-> <<5>>, notes |-> <<"Used for containerization">>],
     [technology_id |-> <<4>>, project_id |-> <<5>>, notes |-> <<"Used for orchestration">>],
     [technology_id |-> <<3>>, project_id |-> <<6>>, notes |-> <<"Used for admin interface">>],
     [technology_id |-> <<6>>, project_id |-> <<6>>, notes |-> <<"Used for type safety">>],
     [technology_id |-> <<22>>, project_id |-> <<6>>, notes |-> <<"Main database">>],
     [technology_id |-> <<21>>, project_id |-> <<6>>, notes |-> <<"Used for styling">>],
     [technology_id |-> <<27>>, project_id |-> <<5>>, notes |-> <<"Used for data processing pipeline">>],
     [technology_id |-> <<29>>, project_id |-> <<3>>, notes |-> <<"Used for admin dashboard">>],
     [technology_id |-> <<30>>, project_id |-> <<2>>, notes |-> <<"Used for internal APIs">>],
     [technology_id |-> <<32>>, project_id |-> <<5>>, notes |-> <<"Machine learning models for search ranking">>],
     [technology_id |-> <<33>>, project_id |-> <<5>>, notes |-> <<"Alternative ML library used for recommendation engine">>],
     [technology_id |-> <<28>>, project_id |-> <<1>>, notes |-> <<"Backend services for inventory management">>],
     [technology_id |-> <<31>>, project_id |-> <<1>>, notes |-> <<"Framework for Java microservices">>],
     [technology_id |-> <<28>>, project_id |-> <<3>>, notes |-> <<"Used for performance-critical services">>],
     [technology_id |-> <<27>>, project_id |-> <<7>>, notes |-> <<"Main development language">>],
     [technology_id |-> <<32>>, project_id |-> <<7>>, notes |-> <<"Main machine learning framework">>],
     [technology_id |-> <<33>>, project_id |-> <<7>>, notes |-> <<"Used for specialized neural network models">>],
     [technology_id |-> <<22>>, project_id |-> <<7>>, notes |-> <<"Database for storing user preferences">>],
     [technology_id |-> <<24>>, project_id |-> <<7>>, notes |-> <<"Caching for recommendation results">>] >>

\* initializeData, lines 118-122: the sample project.
techRadar ==
  [name |-> V("VW Tech Radar"),
   description |-> V("Visualization tool for technology choices and assessment"),
   status |-> V("active")]

\* The tables the loops of lines 501-508 walk.  Their declarations are not
\* part of the source at hand: the entries are the quadrants and rings the
\* specification names, without colour.
defaultQuadrants ==
  << [name |-> V("Techniques"), description |-> V("")],
     [name |-> V("Tools"), description |-> V("")],
     [name |-> V("Frameworks"), description |-> V("")],
     [name |-> V("Platforms"), description |-> V("")] >>
defaultRings ==
  << [name |-> V("Adopt"), description |-> V("")],
     [name |-> V("Trial"), description |-> V("")],
     [name |-> V("Assess"), description |-> V("")],
     [name |-> V("Hold"), description |-> V("")] >>

---------------------------------------------------------------------------
\* The collections, by name.

Collections ==
  {"technologies", "quadrants", "rings", "projects", "technologyProjects"}
MapOf(c) ==
  CASE c = "technologies" -> technologies
    [] c = "quadrants" -> quadrants
    [] c = "rings" -> rings
    [] c = "projects" -> projects
    [] c = "technologyProjects" -> technologyProjects
CurrentIdOf(c) ==
  CASE c = "technologies" -> techCurrentId
    [] c = "quadrants" -> quadrantCurrentId
    [] c = "rings" -> ringCurrentId
    [] c = "projects" -> projectCurrentId
    [] c = "technologyProjects" -> techProjectCurrentId

\* The record of a call that has ended.
Call(op, c, id, input, query, ret) ==
  [op |-> op, coll |-> c, id |-> id, input |-> input, query |-> query,
   ret |-> ret]
NoCall == Call("none", "none", 0, EmptyObject, "", Undefined)
Issue(c, id) == [issued EXCEPT ![c] = Append(@, id)]

---------------------------------------------------------------------------
\* Technology methods.

\* getTechnology raising an error for an id the map does not hold.
getTechnology_Throws(id) ==
  IF MapHas(technologies, id) THEN MapGet(technologies, id) ELSE Throws
\* getTechnology(id).
getTechnology(id) == MapGet(technologies, id)
\* getTechnologies().
getTechnologies == Value(MapValues(technologies))

\* tech.name.toLowerCase() and tech.description.toLowerCase() need a string:
\* on null or undefined the call throws a TypeError.
IsString(o, f) == Has(o, f) /\ o[f] # Null
\* The filter callback of searchTechnologies.
TechMatches(tech, lowered) ==
  LET nameMatch == includes(toLowerCase(Val(tech.name)), lowered)
      descMatch == includes(toLowerCase(Val(tech.description)), lowered)
      tagsMatch == IF TruthyArr(tech, "tags")
                   THEN \E i \in 1..Len(Val(tech.tags)) :
                          includes(toLowerCase(Val(tech.tags)[i]), lowered)
                   ELSE FALSE
  IN nameMatch \/ descMatch \/ tagsMatch
\* searchTechnologies testing the query for emptiness without trimming it.
searchTechnologies_NoTrim(query) ==
  IF query = "" THEN getTechnologies
  ELSE LET all == MapValues(technologies) IN
       IF \E i \in 1..Len(all) :
            ~IsString(all[i], "name") \/ ~IsString(all[i], "description")
       THEN Throws
       ELSE LET lowerQuery == toLowerCase(query) IN
            Value(SelectSeq(all, LAMBDA t : TechMatches(t, lowerQuery)))
\* searchTechnologies(query).
searchTechnologies(query) ==
  IF query = "" \/ trim(query) = "" THEN getTechnologies
  ELSE LET all == MapValues(technologies) IN
       IF \E i \in 1..Len(all) :
            ~IsString(all[i], "name") \/ ~IsString(all[i], "description")
       THEN Throws
       ELSE LET lowerQuery == toLowerCase(query) IN
            Value(SelectSeq(all, LAMBDA t : TechMatches(t, lowerQuery)))

\* The object of createTechnology without the defaults of its optional fields.
NewTechnology_NoDefaults(insertTechnology, id) ==
  Spread(insertTechnology, [id |-> id])
\* The entity built with the counter read after its increment: its id field
\* is one more than the key it is stored under.
NewTechnology_CounterAfter(insertTechnology, id) ==
  Spread(insertTechnology,
         [id |-> id + 1,
          website |-> OrNullStr(insertTechnology, "website"),
          tags |-> OrEmptyArr(insertTechnology, "tags"),
          custom_properties |->
            OrNullStr(insertTechnology, "custom_properties")])
\* The object createTechnology builds, lines 617-623.
NewTechnology(insertTechnology, id) ==
  Spread(insertTechnology,
         [id |-> id,
          website |-> OrNullStr(insertTechnology, "website"),
          tags |-> OrEmptyArr(insertTechnology, "tags"),
          custom_properties |-> OrNullStr(insertTechnology, "custom_properties")])
\* createTechnology storing the input instead of the object it built.
createTechnology_StoresInput(insertTechnology) ==
  LET id == techCurrentId
      technology == NewTechnology(insertTechnology, id)
  IN /\ techCurrentId' = id + 1
     /\ technologies' = MapSet(technologies, id, insertTechnology)
     /\ issued' = Issue("technologies", id)
     /\ last' = Call("create", "technologies", id, insertTechnology, "",
                     Value(technology))
     /\ UNCHANGED <<quadrants, rings, projects, technologyProjects,
                    quadrantCurrentId, ringCurrentId, projectCurrentId,
                    techProjectCurrentId>>
\* createTechnology reading the counter without advancing it.
createTechnology_NoIncrement(insertTechnology) ==
  LET id == techCurrentId
      technology == NewTechnology(insertTechnology, id)
  IN /\ technologies' = MapSet(technologies, id, technology)
     /\ issued' = Issue("technologies", id)
     /\ last' = Call("create", "technologies", id, insertTechnology, "",
                     Value(technology))
     /\ UNCHANGED <<quadrants, rings, projects, technologyProjects,
                    techCurrentId, quadrantCurrentId, ringCurrentId,
                    projectCurrentId, techProjectCurrentId>>
\* createTechnology rejecting a quadrant or ring that is not the index of a
\* stored quadrant or ring.
createTechnology_Validates(insertTechnology) ==
  LET id == techCurrentId
      technology == NewTechnology(insertTechnology, id)
      known == /\ Has(insertTechnology, "quadrant")
               /\ insertTechnology.quadrant # Null
               /\ Val(insertTechnology.quadrant) \in 0..(Len(quadrants) - 1)
               /\ Has(insertTechnology, "ring")
               /\ insertTechnology.ring # Null
               /\ Val(insertTechnology.ring) \in 0..(Len(rings) - 1)
  IN
  IF known
  THEN /\ techCurrentId' = id + 1
       /\ technologies' = MapSet(technologies, id, technology)
       /\ issued' = Issue("technologies", id)
       /\ last' = Call("create", "technologies", id, insertTechnology, "",
                       Value(technology))
       /\ UNCHANGED <<quadrants, rings, projects, technologyProjects,
                      quadrantCurrentId, ringCurrentId, projectCurrentId,
                      techProjectCurrentId>>
  ELSE /\ last' = Call("create", "technologies", id, insertTechnology, "",
                       Throws)
       /\ UNCHANGED <<storeVars, issued>>
\* createTechnology left after its first statement: the id is taken and the
\* counter advanced, the entity is not stored.
createTechnology_CounterOnly(insertTechnology) ==
  LET id == techCurrentId
      technology == NewTechnology(insertTechnology, id)
  IN /\ techCurrentId' = id + 1
     /\ issued' = Issue("technologies", id)
     /\ last' = Call("create", "technologies", id, insertTechnology, "",
                     Value(technology))
     /\ UNCHANGED <<technologies, quadrants, rings, projects,
                    technologyProjects, quadrantCurrentId, ringCurrentId,
                    projectCurrentId, techProjectCurrentId>>
\* createTechnology advancing the counter by two: every other id is left
\* out.
createTechnology_SkipsId(insertTechnology) ==
  LET id == techCurrentId
      technology == NewTechnology(insertTechnology, id)
  IN /\ techCurrentId' = id + 2
     /\ technologies' = MapSet(technologies, id, technology)
     /\ issued' = Issue("technologies", id)
     /\ last' = Call("create", "technologies", id, insertTechnology, "",
                     Value(technology))
     /\ UNCHANGED <<quadrants, rings, projects, technologyProjects,
                    quadrantCurrentId, ringCurrentId, projectCurrentId,
                    techProjectCurrentId>>
\* createTechnology(insertTechnology).
createTechnology(insertTechnology) ==
  LET id == techCurrentId
      technology == NewTechnology(insertTechnology, id)
  IN /\ techCurrentId' = id + 1
     /\ technologies' = MapSet(technologies, id, technology)
     /\ issued' = Issue("technologies", id)
     /\ last' = Call("create", "technologies", id, insertTechnology, "",
                     Value(technology))
     /\ UNCHANGED <<quadrants, rings, projects, technologyProjects,
                    quadrantCurrentId, ringCurrentId, projectCurrentId,
                    techProjectCurrentId>>
\* updateTechnology storing the update under an id the map does not hold.
updateTechnology_Upsert(id, technologyUpdate) ==
  LET existingTech == MapGet(technologies, id)
      updatedTech == IF existingTech.kind = "undefined" THEN technologyUpdate
                     ELSE Spread(existingTech.val, technologyUpdate)
  IN /\ technologies' = MapSet(technologies, id, updatedTech)
     /\ last' = Call("update", "technologies", id, technologyUpdate, "",
                     IF existingTech.kind = "undefined" THEN Undefined
                     ELSE Value(updatedTech))
     /\ UNCHANGED <<quadrants, rings, projects, technologyProjects,
                    techCurrentId, quadrantCurrentId, ringCurrentId,
                    projectCurrentId, techProjectCurrentId, issued>>
\* updateTechnology replacing the entity by the update instead of merging.
updateTechnology_Replace(id, technologyUpdate) ==
  LET existingTech == MapGet(technologies, id) IN
  IF existingTech.kind = "undefined"
  THEN /\ last' = Call("update", "technologies", id, technologyUpdate, "",
                       Undefined)
       /\ UNCHANGED <<storeVars, issued>>
  ELSE LET updatedTech == Spread(technologyUpdate, [id |-> id]) IN
       /\ technologies' = MapSet(technologies, id, updatedTech)
       /\ last' = Call("update", "technologies", id, technologyUpdate, "",
                       Value(updatedTech))
       /\ UNCHANGED <<quadrants, rings, projects, technologyProjects,
                      techCurrentId, quadrantCurrentId, ringCurrentId,
                      projectCurrentId, techProjectCurrentId, issued>>
\* updateTechnology merging only the fields of the update that are not null.
updateTechnology_SkipsNull(id, technologyUpdate) ==
  LET existingTech == MapGet(technologies, id) IN
  IF existingTech.kind = "undefined"
  THEN /\ last' = Call("update", "technologies", id, technologyUpdate, "",
                       Undefined)
       /\ UNCHANGED <<storeVars, issued>>
  ELSE LET given == {f \in DOMAIN technologyUpdate :
                       technologyUpdate[f] # Null}
           updatedTech == Spread(existingTech.val,
                                 [f \in given |-> technologyUpdate[f]])
       IN
       /\ technologies' = MapSet(technologies, id, updatedTech)
       /\ last' = Call("update", "technologies", id, technologyUpdate, "",
                       Value(updatedTech))
       /\ UNCHANGED <<quadrants, rings, projects, technologyProjects,
                      techCurrentId, quadrantCurrentId, ringCurrentId,
                      projectCurrentId, techProjectCurrentId, issued>>
\* updateTechnology returning the merged entity without storing it.
updateTechnology_NoStore(id, technologyUpdate) ==
  LET existingTech == MapGet(technologies, id) IN
  IF existingTech.kind = "undefined"
  THEN /\ last' = Call("update", "technologies", id, technologyUpdate, "",
                       Undefined)
       /\ UNCHANGED <<storeVars, issued>>
  ELSE LET updatedTech == Spread(existingTech.val, technologyUpdate) IN
       /\ last' = Call("update", "technologies", id, technologyUpdate, "",
                       Value(updatedTech))
       /\ UNCHANGED <<storeVars, issued>>
\* updateTechnology deleting the entry and setting it anew, which moves it
\* to the end of the map's insertion order.
updateTechnology_Reinserts(id, technologyUpdate) ==
  LET existingTech == MapGet(technologies, id) IN
  IF existingTech.kind = "undefined"
  THEN /\ last' = Call("update", "technologies", id, technologyUpdate, "",
                       Undefined)
       /\ UNCHANGED <<storeVars, issued>>
  ELSE LET updatedTech == Spread(existingTech.val, technologyUpdate)
           others == SelectSeq(technologies, LAMBDA e : e.key # id)
       IN
       /\ technologies' = MapSet(others, id, updatedTech)
       /\ last' = Call("update", "technologies", id, technologyUpdate, "",
                       Value(updatedTech))
       /\ UNCHANGED <<quadrants, rings, projects, technologyProjects,
                      techCurrentId, quadrantCurrentId, ringCurrentId,
                      projectCurrentId, techProjectCurrentId, issued>>
\* updateTechnology(id, technologyUpdate).
updateTechnology(id, technologyUpdate) ==
  LET existingTech == MapGet(technologies, id) IN
  IF existingTech.kind = "undefined"
  THEN /\ last' = Call("update", "technologies", id, technologyUpdate, "",
                       Undefined)
       /\ UNCHANGED <<storeVars, issued>>
  ELSE LET updatedTech == Spread(existingTech.val, technologyUpdate) IN
       /\ technologies' = MapSet(technologies, id, updatedTech)
       /\ last' = Call("update", "technologies", id, technologyUpdate, "",
                       Value(updatedTech))
       /\ UNCHANGED <<quadrants, rings, projects, technologyProjects,
                      techCurrentId, quadrantCurrentId, ringCurrentId,
                      projectCurrentId, techProjectCurrentId, issued>>

---------------------------------------------------------------------------
\* Quadrant methods.

getQuadrant(id) == MapGet(quadrants, id)
getQuadrants == Value(MapValues(quadrants))
\* The object createQuadrant builds, lines 650-654.
NewQuadrant(insertQuadrant, id) ==
  Spread(insertQuadrant,
         [id |-> id, color |-> OrNullStr(insertQuadrant, "color")])
createQuadrant(insertQuadrant) ==
  LET id == quadrantCurrentId
      quadrant == NewQuadrant(insertQuadrant, id)
  IN /\ quadrantCurrentId' = id + 1
     /\ quadrants' = MapSet(quadrants, id, quadrant)
     /\ issued' = Issue("quadrants", id)
     /\ last' = Call("create", "quadrants", id, insertQuadrant, "",
                     Value(quadrant))
     /\ UNCHANGED <<technologies, rings, projects, technologyProjects,
                    techCurrentId, ringCurrentId, projectCurrentId,
                    techProjectCurrentId>>
updateQuadrant(id, quadrantUpdate) ==
  LET existingQuadrant == MapGet(quadrants, id) IN
  IF existingQuadrant.kind = "undefined"
  THEN /\ last' = Call("update", "quadrants", id, quadrantUpdate, "", Undefined)
       /\ UNCHANGED <<storeVars, issued>>
  ELSE LET updatedQuadrant == Spread(existingQuadrant.val, quadrantUpdate) IN
       /\ quadrants' = MapSet(quadrants, id, updatedQuadrant)
       /\ last' = Call("update", "quadrants", id, quadrantUpdate, "",
                       Value(updatedQuadrant))
       /\ UNCHANGED <<technologies, rings, projects, technologyProjects,
                      techCurrentId, quadrantCurrentId, ringCurrentId,
                      projectCurrentId, techProjectCurrentId, issued>>

---------------------------------------------------------------------------
\* Ring methods.

getRing(id) == MapGet(rings, id)
getRings == Value(MapValues(rings))
\* The object createRing builds, lines 681-685.
NewRing(insertRing, id) ==
  Spread(insertRing, [id |-> id, color |-> OrNullStr(insertRing, "color")])
\* createRing taking its id from the quadrants' counter.
createRing_SharedCounter(insertRing) ==
  LET id == quadrantCurrentId
      ring == NewRing(insertRing, id)
  IN /\ quadrantCurrentId' = id + 1
     /\ rings' = MapSet(rings, id, ring)
     /\ issued' = Issue("rings", id)
     /\ last' = Call("create", "rings", id, insertRing, "", Value(ring))
     /\ UNCHANGED <<technologies, quadrants, projects, technologyProjects,
                    techCurrentId, ringCurrentId, projectCurrentId,
                    techProjectCurrentId>>
createRing(insertRing) ==
  LET id == ringCurrentId
      ring == NewRing(insertRing, id)
  IN /\ ringCurrentId' = id + 1
     /\ rings' = MapSet(rings, id, ring)
     /\ issued' = Issue("rings", id)
     /\ last' = Call("create", "rings", id, insertRing, "", Value(ring))
     /\ UNCHANGED <<technologies, quadrants, projects, technologyProjects,
                    techCurrentId, quadrantCurrentId, projectCurrentId,
                    techProjectCurrentId>>
updateRing(id, ringUpdate) ==
  LET existingRing == MapGet(rings, id) IN
  IF existingRing.kind = "undefined"
  THEN /\ last' = Call("update", "rings", id, ringUpdate, "", Undefined)
       /\ UNCHANGED <<storeVars, issued>>
  ELSE LET updatedRing == Spread(existingRing.val, ringUpdate) IN
       /\ rings' = MapSet(rings, id, updatedRing)
       /\ last' = Call("update", "rings", id, ringUpdate, "",
                       Value(updatedRing))
       /\ UNCHANGED <<technologies, quadrants, projects, technologyProjects,
                      techCurrentId, quadrantCurrentId, ringCurrentId,
                      projectCurrentId, techProjectCurrentId, issued>>

---------------------------------------------------------------------------
\* Project methods and linkTechnologyToProject.  Their bodies are not part
\* of the source at hand; they follow the pattern the specification gives
\* for every collection: the next id, null for an unset optional field.

DefaultNull(o, f) == IF Has(o, f) THEN o[f] ELSE Null
getProject(id) == MapGet(projects, id)
getProjects == Value(MapValues(projects))
NewProject(insertProject, id) ==
  Spread(insertProject,
         [id |-> id,
          website |-> DefaultNull(insertProject, "website"),
          repository |-> DefaultNull(insertProject, "repository"),
          image |-> DefaultNull(insertProject, "image")])
createProject(insertProject) ==
  LET id == projectCurrentId
      project == NewProject(insertProject, id)
  IN /\ projectCurrentId' = id + 1
     /\ projects' = MapSet(projects, id, project)
     /\ issued' = Issue("projects", id)
     /\ last' = Call("create", "projects", id, insertProject, "",
                     Value(project))
     /\ UNCHANGED <<technologies, quadrants, rings, technologyProjects,
                    techCurrentId, quadrantCurrentId, ringCurrentId,
                    techProjectCurrentId>>
updateProject(id, projectUpdate) ==
  LET existingProject == MapGet(projects, id) IN
  IF existingProject.kind = "undefined"
  THEN /\ last' = Call("update", "projects", id, projectUpdate, "", Undefined)
       /\ UNCHANGED <<storeVars, issued>>
  ELSE LET updatedProject == Spread(existingProject.val, projectUpdate) IN
       /\ projects' = MapSet(projects, id, updatedProject)
       /\ last' = Call("update", "projects", id, projectUpdate, "",
                       Value(updatedProject))
       /\ UNCHANGED <<technologies, quadrants, rings, technologyProjects,
                      techCurrentId, quadrantCurrentId, ringCurrentId,
                      projectCurrentId, techProjectCurrentId, issued>>

getTechnologyProject(id) == MapGet(technologyProjects, id)
getTechnologyProjects == Value(MapValues(technologyProjects))
NewTechnologyProject(insertTechProject, id) ==
  Spread(insertTechProject,
         [id |-> id, notes |-> DefaultNull(insertTechProject, "notes")])
\* linkTechnologyToProject returning the stored link of the same technology
\* and project when there is one, instead of creating a second.
linkTechnologyToProject_Unique(insertTechProject) ==
  LET id == techProjectCurrentId
      techProject == NewTechnologyProject(insertTechProject, id)
      same == {i \in 1..Len(technologyProjects) :
                 /\ technologyProjects[i].value.technology_id
                      = insertTechProject.technology_id
                 /\ technologyProjects[i].value.project_id
                      = insertTechProject.project_id}
  IN
  IF same # {}
  THEN LET i == CHOOSE i \in same : TRUE IN
       /\ last' = Call("create", "technologyProjects",
                       technologyProjects[i].key, insertTechProject, "",
                       Value(technologyProjects[i].value))
       /\ UNCHANGED <<storeVars, issued>>
  ELSE /\ techProjectCurrentId' = id + 1
       /\ technologyProjects' = MapSet(technologyProjects, id, techProject)
       /\ issued' = Issue("technologyProjects", id)
       /\ last' = Call("create", "technologyProjects", id, insertTechProject,
                       "", Value(techProject))
       /\ UNCHANGED <<technologies, quadrants, rings, projects, techCurrentId,
                      quadrantCurrentId, ringCurrentId, projectCurrentId>>
linkTechnologyToProject(insertTechProject) ==
  LET id == techProjectCurrentId
      techProject == NewTechnologyProject(insertTechProject, id)
  IN /\ techProjectCurrentId' = id + 1
     /\ technologyProjects' = MapSet(technologyProjects, id, techProject)
     /\ issued' = Issue("technologyProjects", id)
     /\ last' = Call("create", "technologyProjects", id, insertTechProject,
                     "", Value(techProject))
     /\ UNCHANGED <<technologies, quadrants, rings, projects, techCurrentId,
                    quadrantCurrentId, ringCurrentId, projectCurrentId>>

\* The collection's read methods, by name.
Get(c, id) ==
  CASE c = "technologies" -> getTechnology(id)
    [] c = "quadrants" -> getQuadrant(id)
    [] c = "rings" -> getRing(id)
    [] c = "projects" -> getProject(id)
    [] c = "technologyProjects" -> getTechnologyProject(id)
List(c) ==
  CASE c = "technologies" -> getTechnologies
    [] c = "quadrants" -> getQuadrants
    [] c = "rings" -> getRings
    [] c = "projects" -> getProjects
    [] c = "technologyProjects" -> getTechnologyProjects

---------------------------------------------------------------------------
\* initializeData: one step per call of a create method, in program order.

\* The radar view before it is mounted: the initial values of its state
\* (useState, lines 21-24) and of its queries (no data yet).
Unmounted ==
  /\ data = <<>>
  /\ loading = TRUE
  /\ viewQuadrants = <<>>
  /\ viewRings = <<>>
  /\ searchQuery = ""
  /\ searchResults = Null
  /\ selectedTech = Null
  /\ selectedQuadrant = Null
  /\ svg = Undefined
  /\ handled = [op |-> "none", threw |-> FALSE]

\* The state initializeData reaches after clearing the maps and resetting
\* the counters, lines 3-14.
Init ==
  /\ technologies = <<>>
  /\ quadrants = <<>>
  /\ rings = <<>>
  /\ projects = <<>>
  /\ technologyProjects = <<>>
  /\ techCurrentId = 1
  /\ quadrantCurrentId = 1
  /\ ringCurrentId = 1
  /\ projectCurrentId = 1
  /\ techProjectCurrentId = 1
  /\ pc = "seedQuadrants"
  /\ idx = 1
  /\ timer = "unset"
  /\ calls = 0
  /\ issued = [c \in Collections |-> <<>>]
  /\ last = NoCall
  /\ Unmounted

\* How many entries of a table of seed technologies are loaded.
SeedCount(table) == IF Len(table) < SeedTechs THEN Len(table) ELSE SeedTechs
\* The position after entry idx of a table of n entries.
Advance(n, next) ==
  /\ pc' = IF idx < n THEN pc ELSE next
  /\ idx' = IF idx < n THEN idx + 1 ELSE 1
  /\ UNCHANGED <<timer, calls, viewVars>>

CreateSeedQuadrant ==
  /\ pc = "seedQuadrants"
  /\ createQuadrant(seedQuadrants[idx])
  /\ Advance(Len(seedQuadrants), "seedRings")
CreateSeedRing ==
  /\ pc = "seedRings"
  /\ createRing(seedRings[idx])
  /\ Advance(Len(seedRings), "seedTechnologies")
CreateSeedTechnology ==
  /\ pc = "seedTechnologies"
  /\ createTechnology(seedTechnologies[idx])
  /\ Advance(SeedCount(seedTechnologies), "techRadar")
CreateSampleProject ==
  /\ pc = "techRadar"
  /\ createProject(techRadar)
  /\ Advance(1, "defaultQuadrants")
AddDefaultQuadrant ==
  /\ pc = "defaultQuadrants"
  /\ createQuadrant(defaultQuadrants[idx])
  /\ Advance(Len(defaultQuadrants), "defaultRings")
AddDefaultRing ==
  /\ pc = "defaultRings"
  /\ createRing(defaultRings[idx])
  /\ Advance(Len(defaultRings), "defaultTechnologies")
AddDefaultTechnology ==
  /\ pc = "defaultTechnologies"
  /\ createTechnology(defaultTechnologies[idx])
  /\ Advance(SeedCount(defaultTechnologies), "defaultProjects")
\* The loop of lines 516-521 leaving out its createProject call.
AddDefaultProject_Skipped ==
  /\ pc = "defaultProjects"
  /\ Advance(Len(defaultProjects), "setTimeout")
  /\ UNCHANGED <<storeVars, issued, last>>
\* createProject runs to its end inside the loop: an async function without
\* an await runs synchronously; only the then-callback is deferred.
AddDefaultProject ==
  /\ pc = "defaultProjects"
  /\ createProject(defaultProjects[idx])
  /\ Advance(Len(defaultProjects), "setTimeout")
\* setTimeout(..., 100): the callback is queued and initializeData returns.
SetupTimeout ==
  /\ pc = "setTimeout"
  /\ pc' = "ready"
  /\ timer' = "pending"
  /\ UNCHANGED <<storeVars, idx, calls, issued, last, viewVars>>

\* The map after the forEach of lines 583-585 has called
\* linkTechnologyToProject on every entry: the calls set the keys id, id + 1,
\* ... in turn; Map.set replaces in place the entry of a key the map holds
\* and appends the others in order.
LinkAll(m, id, links) ==
  LET n == Len(links)
      new == [i \in 1..n |->
                [key |-> id + i - 1,
                 value |-> NewTechnologyProject(links[i], id + i - 1)]]
      kept == [j \in 1..Len(m) |->
                 IF m[j].key \in id..(id + n - 1)
                 THEN new[m[j].key - id + 1] ELSE m[j]]
  IN kept \o SelectSeq(new, LAMBDA e : ~MapHas(m, e.key))
\* The timer callback numbering its links from 1 instead of from the
\* counter: it overwrites the links made before it ran.
LinkCallback_FromOne ==
  /\ pc = "ready"
  /\ timer = "pending"
  /\ timer' = "fired"
  /\ technologyProjects' = LinkAll(technologyProjects, 1, techProjectLinks)
  /\ techProjectCurrentId' = 1 + Len(techProjectLinks)
  /\ issued' = [issued EXCEPT !["technologyProjects"] =
                  @ \o [i \in 1..Len(techProjectLinks) |-> i]]
  /\ last' = Call("timer", "technologyProjects", 0, EmptyObject, "", Undefined)
  /\ UNCHANGED <<technologies, quadrants, rings, projects, techCurrentId,
                 quadrantCurrentId, ringCurrentId, projectCurrentId, pc, idx,
                 calls, viewVars>>
\* The timer callback: it runs once, between two calls of the boundary.
LinkCallback ==
  /\ pc = "ready"
  /\ timer = "pending"
  /\ timer' = "fired"
  /\ technologyProjects' =
       LinkAll(technologyProjects, techProjectCurrentId, techProjectLinks)
  /\ techProjectCurrentId' = techProjectCurrentId + Len(techProjectLinks)
  /\ issued' = [issued EXCEPT !["technologyProjects"] =
                  @ \o [i \in 1..Len(techProjectLinks) |->
                          techProjectCurrentId + i - 1]]
  /\ last' = Call("timer", "technologyProjects", 0, EmptyObject, "", Undefined)
  /\ UNCHANGED <<technologies, quadrants, rings, projects, techCurrentId,
                 quadrantCurrentId, ringCurrentId, projectCurrentId, pc, idx,
                 calls, viewVars>>

---------------------------------------------------------------------------
\* The calls of the boundary, one at a time, once the store is constructed.

TechnologyInputs ==
  { [name |-> V("Kubernetes"), quadrant |-> V(2), ring |-> V(0)],
    [name |-> V("Docker"), description |-> V("Container tool"),
     quadrant |-> V(1), ring |-> V(0), website |-> V(""), tags |-> V(<<>>),
     custom_properties |-> V("")],
    [name |-> V("ab"), description |-> V("B c"), quadrant |-> V(9),
     ring |-> V(-1), website |-> V("w"), tags |-> V(<<"Ab", "d">>),
     custom_properties |-> V("{}")],
    [name |-> V("n"), description |-> V(""), quadrant |-> V(0),
     ring |-> V(3), website |-> Null, tags |-> Null,
     custom_properties |-> Null] }
TechnologyUpdates ==
  { [name |-> V("X")],
    [website |-> Null],
    [name |-> Null, tags |-> Null],
    [quadrant |-> V(7), ring |-> V(5)] }
ColourInputs ==
  { [name |-> V("Q"), description |-> V("d")],
    [name |-> V("Q"), description |-> V("d"), color |-> V("")] }
ColourUpdates ==
  { [name |-> V("X"), color |-> Null] }
ProjectInputs ==
  { [name |-> V("P"), description |-> V("d"), status |-> V("active")],
    [name |-> V("P"), description |-> V("d"), status |-> V("x"),
     website |-> V("w"), repository |-> V("r"), image |-> V("i")] }
ProjectUpdates ==
  { [status |-> V("completed")] }
LinkInputs ==
  { [technology_id |-> V(1), project_id |-> V(1)],
    [technology_id |-> V(99), project_id |-> V(-1), notes |-> V("n")] }
Queries == {"", "   ", "docker", "FrontEnd", " b", "zz"}
\* The ids a caller passes: none, negative, the first, the last, the next.
Ids(c) == {-1, 0, 1, CurrentIdOf(c) - 1, CurrentIdOf(c)}

Ready == pc = "ready" /\ calls < MaxCalls
Called == calls' = calls + 1 /\ UNCHANGED <<pc, idx, timer, viewVars>>
Read(op, c, id, query, ret) ==
  /\ last' = Call(op, c, id, EmptyObject, query, ret)
  /\ UNCHANGED <<storeVars, issued>>

GetEntity ==
  /\ Ready
  /\ \E c \in Collections : \E id \in Ids(c) : Read("get", c, id, "", Get(c, id))
  /\ Called
ListEntities ==
  /\ Ready
  /\ \E c \in Collections : Read("list", c, 0, "", List(c))
  /\ Called
SearchTechnologies ==
  /\ Ready
  /\ \E query \in Queries :
       Read("search", "technologies", 0, query, searchTechnologies(query))
  /\ Called
CreateTechnology ==
  /\ Ready
  /\ \E insertTechnology \in TechnologyInputs :
       createTechnology(insertTechnology)
  /\ Called
UpdateTechnology ==
  /\ Ready
  /\ \E id \in Ids("technologies") :
       \E technologyUpdate \in TechnologyUpdates :
         updateTechnology(id, technologyUpdate)
  /\ Called
CreateQuadrant ==
  /\ Ready
  /\ \E insertQuadrant \in ColourInputs : createQuadrant(insertQuadrant)
  /\ Called
UpdateQuadrant ==
  /\ Ready
  /\ \E id \in Ids("quadrants") :
       \E quadrantUpdate \in ColourUpdates : updateQuadrant(id, quadrantUpdate)
  /\ Called
CreateRing ==
  /\ Ready
  /\ \E insertRing \in ColourInputs : createRing(insertRing)
  /\ Called
UpdateRing ==
  /\ Ready
  /\ \E id \in Ids("rings") :
       \E ringUpdate \in ColourUpdates : updateRing(id, ringUpdate)
  /\ Called
CreateProject ==
  /\ Ready
  /\ \E insertProject \in ProjectInputs : createProject(insertProject)
  /\ Called
UpdateProject ==
  /\ Ready
  /\ \E id \in Ids("projects") :
       \E projectUpdate \in ProjectUpdates : updateProject(id, projectUpdate)
  /\ Called
LinkTechnologyToProject ==
  /\ Ready
  /\ \E insertTechProject \in LinkInputs :
       linkTechnologyToProject(insertTechProject)
  /\ Called

\* The calls of lines 67-115 with quadrant and ring counted from 1.
LoadSeedTechnology_OneBased ==
  /\ pc = "seedTechnologies"
  /\ createTechnology(
       [seedTechnologies[idx] EXCEPT !.quadrant = V(Val(@) + 1),
                                     !.ring = V(Val(@) + 1)])
  /\ Advance(Len(seedTechnologies), "techRadar")
\* initializeData with its tables of technologies in full: every createTechnology
\* call of lines 67-115, and every entry of defaultTechnologies (lines 511-513).
LoadSeedTechnology ==
  /\ pc = "seedTechnologies"
  /\ createTechnology(seedTechnologies[idx])
  /\ Advance(Len(seedTechnologies), "techRadar")
LoadDefaultTechnology ==
  /\ pc = "defaultTechnologies"
  /\ createTechnology(defaultTechnologies[idx])
  /\ Advance(Len(defaultTechnologies), "defaultProjects")

Next ==
  \/ CreateSeedQuadrant
  \/ CreateSeedRing
  \/ CreateSeedTechnology
  \/ CreateSampleProject
  \/ AddDefaultQuadrant
  \/ AddDefaultRing
  \/ AddDefaultTechnology
  \/ AddDefaultProject
  \/ SetupTimeout
  \/ LinkCallback
  \/ GetEntity
  \/ ListEntities
  \/ SearchTechnologies
  \/ CreateTechnology
  \/ UpdateTechnology
  \/ CreateQuadrant
  \/ UpdateQuadrant
  \/ CreateRing
  \/ UpdateRing
  \/ CreateProject
  \/ UpdateProject
  \/ LinkTechnologyToProject

Spec == Init /\ [][Next]_vars

---------------------------------------------------------------------------
\* The store seeded from the full tables, with the project and link calls of
\* the boundary and the reads.
NextSeed ==
  \/ CreateSeedQuadrant
  \/ CreateSeedRing
  \/ LoadSeedTechnology
  \/ CreateSampleProject
  \/ AddDefaultQuadrant
  \/ AddDefaultRing
  \/ LoadDefaultTechnology
  \/ AddDefaultProject
  \/ SetupTimeout
  \/ LinkCallback
  \/ GetEntity
  \/ ListEntities
  \/ CreateProject
  \/ UpdateProject
  \/ LinkTechnologyToProject

SpecSeed == Init /\ [][NextSeed]_vars

---------------------------------------------------------------------------
\* The radar view, component RadarVisualization.

\* A property read off an object: its field, or undefined when the object
\* has no such property.  undefined differs from null and from every value.
Undef == <<Null, Null>>
Field(o, f) == IF Has(o, f) THEN o[f] ELSE Undef
\* array[index] for an index that is a field: the element, or undefined
\* when the index is not a number within the array.
ArrayAt(array, index) ==
  IF index # Null /\ index # Undef /\ Val(index) \in 0..(Len(array) - 1)
  THEN Value(array[Val(index) + 1])
  ELSE Undefined

\* The default colours per ring index, imported from @/lib/radar-data.
RING_COLORS == <<"RING_COLORS[0]", "RING_COLORS[1]", "RING_COLORS[2]",
                 "RING_COLORS[3]">>
\* How many radii ringRadii holds.
RingRadii == 4

\* The fill of a technology's dot with rings[tech.ring].color, the optional
\* chaining left out: reading color of undefined throws.
RingFill_Unguarded(tech, loadedRings) ==
  LET ring == ArrayAt(loadedRings, Field(tech, "ring")) IN
  IF ring.kind = "undefined" THEN Throws
  ELSE IF TruthyStr(ring.val, "color") THEN Value(ring.val.color)
  ELSE LET fallback == ArrayAt(RING_COLORS, Field(tech, "ring")) IN
       IF fallback.kind = "value" THEN Value(V(fallback.val))
       ELSE Value(Undef)
\* rings[tech.ring]?.color || RING_COLORS[tech.ring]: the colour of the
\* ring at that index when there is one and it is truthy, else the entry of
\* the default table, else undefined.
RingFill(tech, loadedRings) ==
  LET ring == ArrayAt(loadedRings, Field(tech, "ring")) IN
  IF ring.kind = "value" /\ TruthyStr(ring.val, "color")
  THEN Value(ring.val.color)
  ELSE LET fallback == ArrayAt(RING_COLORS, Field(tech, "ring")) IN
       IF fallback.kind = "value" THEN Value(V(fallback.val))
       ELSE Value(Undef)

\* filteredTechs of the plot effect.
FilteredTechs(techs, quadrant) ==
  IF quadrant # Null
  THEN SelectSeq(techs, LAMBDA t : Field(t, "quadrant") = quadrant)
  ELSE techs
\* The dot the effect appends for a technology.  Its position is a number
\* only when quadrantAngles[tech.quadrant] and ringRadii[tech.ring] are
\* defined, NaN otherwise; the random offsets are left out.
Dot(tech, loadedQuadrants, loadedRings, chosen) ==
  [name |-> Field(tech, "name"),
   positioned |->
     /\ ArrayAt(loadedQuadrants, Field(tech, "quadrant")).kind = "value"
     /\ ArrayAt([i \in 1..RingRadii |-> i], Field(tech, "ring")).kind
          = "value",
   fill |-> RingFill(tech, loadedRings).val,
   selected |-> chosen # Null /\ Val(chosen).id = tech.id]
\* The plot effect, lines 102-310, on the data at hand: the dots it draws,
\* or the error it raises.  The quadrant labels read
\* quadrants[i]?.name.length, which throws for a name that is no string.
Plot(techs, loadedQuadrants, loadedRings, quadrant, chosen) ==
  LET filteredTechs == FilteredTechs(techs, quadrant) IN
  IF \E i \in 1..Len(loadedQuadrants) : ~IsString(loadedQuadrants[i], "name")
  THEN Throws
  ELSE IF \E i \in 1..Len(filteredTechs) :
            RingFill(filteredTechs[i], loadedRings).kind = "throws"
  THEN Throws
  ELSE Value([i \in 1..Len(filteredTechs) |->
                Dot(filteredTechs[i], loadedQuadrants, loadedRings, chosen)])
\* What the svg holds after a commit: nothing while isLoading (the spinner
\* is shown in its place), else what the effect drew.
Drawn(isLoading, techs, loadedQuadrants, loadedRings, quadrant, chosen) ==
  IF isLoading THEN Undefined
  ELSE Plot(techs, loadedQuadrants, loadedRings, quadrant, chosen)

\* The filter callback of handleSearch, lines 69-71.  The three tests are
\* joined by ||, so the description is read only when the name does not
\* match, and the tags only when the description does not either.
ClientThrows(tech, lowered) ==
  \/ ~IsString(tech, "name")
  \/ /\ ~includes(toLowerCase(Val(tech.name)), lowered)
     /\ ~IsString(tech, "description")
ClientMatches(tech, lowered) ==
  \/ includes(toLowerCase(Val(tech.name)), lowered)
  \/ includes(toLowerCase(Val(tech.description)), lowered)
  \/ /\ TruthyArr(tech, "tags")
     /\ \E i \in 1..Len(Val(tech.tags)) :
          includes(toLowerCase(Val(tech.tags)[i]), lowered)
\* technologies.filter(...) of handleSearch.
ClientFilter(techs, query) ==
  LET lowerQuery == toLowerCase(query) IN
  IF \E i \in 1..Len(techs) : ClientThrows(techs[i], lowerQuery)
  THEN Throws
  ELSE Value(SelectSeq(techs, LAMBDA t : ClientMatches(t, lowerQuery)))

\* What the query of lines 28-44 gets for a search query: the technologies
\* of GET /api/technologies, with the parameter q when the query is not
\* empty; the data stays [] when the request fails.
Response(query) ==
  LET answer == IF query # "" THEN searchTechnologies(query)
                ELSE getTechnologies
  IN IF answer.kind = "value" THEN answer.val ELSE <<>>

\* The writes the store gets before the view is opened: a technology whose
\* quadrant and ring name no entry, one without description, one without
\* quadrant and ring, and updates of the first technology.
ViewCreates ==
  { [name |-> V("ab"), description |-> V("B c"), quadrant |-> V(9),
     ring |-> V(-1), website |-> V("w"), tags |-> V(<<"Ab", "d">>),
     custom_properties |-> V("{}")],
    [name |-> V("Frontier"), quadrant |-> V(2), ring |-> V(0)],
    [name |-> V("n"), description |-> V("")] }
ViewUpdates ==
  { [name |-> Null, tags |-> Null],
    [quadrant |-> V(7), ring |-> V(5)] }
\* What the user types into the search box.
ViewQueries == {"", "   ", "FrontEnd", "AB"}
\* The quadrant buttons the user presses: all quadrants, the first, the
\* fourth.
QuadrantButtons ==
  {Null} \cup {V(i) : i \in {0, 3} \cap (0..(Len(viewQuadrants) - 1))}

CreateBeforeView ==
  /\ pc = "ready" /\ calls < MaxWrites
  /\ \E insertTechnology \in ViewCreates : createTechnology(insertTechnology)
  /\ Called
UpdateBeforeView ==
  /\ pc = "ready" /\ calls < MaxWrites
  /\ \E technologyUpdate \in ViewUpdates :
       updateTechnology(1, technologyUpdate)
  /\ Called

\* The handler that ran, and whether it raised an error.
Handled(op, threw) == handled' = [op |-> op, threw |-> threw]
\* The store, which the view only reads.
ViewFrame == UNCHANGED <<storeVars, idx, timer, calls, issued, last>>
\* The plot effect runs after the commit, on the new state.
Redraw ==
  svg' = Drawn(loading', data', viewQuadrants', viewRings',
               selectedQuadrant', selectedTech')
\* A change of the search query changes the key of the technologies' query:
\* the data of the new key is not there yet.
Requery(query) ==
  /\ searchQuery' = query
  /\ IF query # searchQuery
     THEN data' = <<>> /\ loading' = TRUE
     ELSE UNCHANGED <<data, loading>>

\* The view is opened on the constructed store, which from then on gets no
\* more writes; its three queries are under way.
MountView ==
  /\ pc = "ready"
  /\ pc' = "view"
  /\ Handled("mount", FALSE)
  /\ UNCHANGED <<data, loading, viewQuadrants, viewRings, searchQuery,
                 searchResults, selectedTech, selectedQuadrant, svg>>
  /\ ViewFrame
\* The queries of lines 28-58 have their answers.
FetchResolved ==
  /\ pc = "view" /\ loading
  /\ data' = Response(searchQuery)
  /\ loading' = FALSE
  /\ viewQuadrants' = getQuadrants.val
  /\ viewRings' = getRings.val
  /\ Handled("fetch", FALSE)
  /\ UNCHANGED <<searchQuery, searchResults, selectedTech, selectedQuadrant>>
  /\ Redraw
  /\ UNCHANGED pc /\ ViewFrame
\* onChange of the search box, line 329.
SetSearchQuery ==
  /\ pc = "view"
  /\ \E query \in ViewQueries \ {searchQuery} : Requery(query)
  /\ Handled("setSearchQuery", FALSE)
  /\ UNCHANGED <<viewQuadrants, viewRings, searchResults, selectedTech,
                 selectedQuadrant>>
  /\ Redraw
  /\ UNCHANGED pc /\ ViewFrame
\* handleSearch: the submission of the search form, lines 63-77.  The
\* refetch it starts gets the data the view already has, the store being
\* left alone meanwhile.
HandleSearch ==
  /\ pc = "view"
  /\ IF searchQuery # ""
     THEN LET results == ClientFilter(data, searchQuery) IN
          IF results.kind = "throws"
          THEN /\ Handled("handleSearch", TRUE)
               /\ UNCHANGED searchResults
          ELSE /\ Handled("handleSearch", FALSE)
               /\ searchResults' = V(results.val)
     ELSE /\ Handled("handleSearch", FALSE)
          /\ searchResults' = Null
  /\ UNCHANGED <<data, loading, viewQuadrants, viewRings, searchQuery,
                 selectedTech, selectedQuadrant>>
  /\ Redraw
  /\ UNCHANGED pc /\ ViewFrame
\* selectTechFromSearch that leaves the quadrant filter alone.
SelectTechFromSearch_KeepsFilter ==
  /\ pc = "view"
  /\ searchResults # Null
  /\ \E i \in 1..Len(Val(searchResults)) :
       selectedTech' = V(Val(searchResults)[i])
  /\ searchResults' = Null
  /\ Handled("selectTechFromSearch", FALSE)
  /\ UNCHANGED <<data, loading, viewQuadrants, viewRings, searchQuery,
                 selectedQuadrant>>
  /\ Redraw
  /\ UNCHANGED pc /\ ViewFrame
\* selectTechFromSearch(tech), lines 86-95, for a technology of the
\* dropdown.
SelectTechFromSearch ==
  /\ pc = "view"
  /\ searchResults # Null
  /\ \E i \in 1..Len(Val(searchResults)) :
       LET tech == Val(searchResults)[i] IN
       /\ selectedTech' = V(tech)
       /\ selectedQuadrant' =
            IF /\ selectedQuadrant # Null
               /\ Field(tech, "quadrant") # selectedQuadrant
            THEN Field(tech, "quadrant")
            ELSE selectedQuadrant
  /\ searchResults' = Null
  /\ Handled("selectTechFromSearch", FALSE)
  /\ UNCHANGED <<data, loading, viewQuadrants, viewRings, searchQuery>>
  /\ Redraw
  /\ UNCHANGED pc /\ ViewFrame
\* clearSearch that leaves the query as it is.
ClearSearch_KeepsQuery ==
  /\ pc = "view"
  /\ searchResults' = Null
  /\ Handled("clearSearch", FALSE)
  /\ UNCHANGED <<data, loading, searchQuery, viewQuadrants, viewRings,
                 selectedTech, selectedQuadrant>>
  /\ Redraw
  /\ UNCHANGED pc /\ ViewFrame
\* clearSearch, lines 80-83.
ClearSearch ==
  /\ pc = "view"
  /\ Requery("")
  /\ searchResults' = Null
  /\ Handled("clearSearch", FALSE)
  /\ UNCHANGED <<viewQuadrants, viewRings, selectedTech, selectedQuadrant>>
  /\ Redraw
  /\ UNCHANGED pc /\ ViewFrame
\* handleQuadrantFilter, lines 312-314, from a quadrant button.
HandleQuadrantFilter ==
  /\ pc = "view"
  /\ \E quadrantId \in QuadrantButtons \ {selectedQuadrant} :
       selectedQuadrant' = quadrantId
  /\ Handled("handleQuadrantFilter", FALSE)
  /\ UNCHANGED <<data, loading, viewQuadrants, viewRings, searchQuery,
                 searchResults, selectedTech>>
  /\ Redraw
  /\ UNCHANGED pc /\ ViewFrame
\* The click on a dot, lines 305-307.
ClickTechnology ==
  /\ pc = "view"
  /\ svg.kind = "value"
  /\ \E i \in 1..Len(FilteredTechs(data, selectedQuadrant)) :
       selectedTech' = V(FilteredTechs(data, selectedQuadrant)[i])
  /\ Handled("click", FALSE)
  /\ UNCHANGED <<data, loading, viewQuadrants, viewRings, searchQuery,
                 searchResults, selectedQuadrant>>
  /\ Redraw
  /\ UNCHANGED pc /\ ViewFrame

\* The store constructed, written to, and then shown by the radar view.
NextView ==
  \/ CreateSeedQuadrant
  \/ CreateSeedRing
  \/ CreateSeedTechnology
  \/ CreateSampleProject
  \/ AddDefaultQuadrant
  \/ AddDefaultRing
  \/ AddDefaultTechnology
  \/ AddDefaultProject
  \/ SetupTimeout
  \/ CreateBeforeView
  \/ UpdateBeforeView
  \/ MountView
  \/ FetchResolved
  \/ SetSearchQuery
  \/ HandleSearch
  \/ SelectTechFromSearch
  \/ ClearSearch
  \/ HandleQuadrantFilter
  \/ ClickTechnology

SpecView == Init /\ [][NextView]_vars

\* The claims.

\* The map of a collection after the step.
MapOfNext(c) ==
  CASE c = "technologies" -> technologies'
    [] c = "quadrants" -> quadrants'
    [] c = "rings" -> rings'
    [] c = "projects" -> projects'
    [] c = "technologyProjects" -> technologyProjects'

\* C1: in every collection, get(id) right after create returned an entity
\* with that id returns a value equal to the entity create returned.
C1_GetAfterCreate ==
  last.op = "create" =>
    LET got == Get(last.coll, last.ret.val.id) IN
    got.kind = "value" /\ got.val = last.ret.val
\* A call of the boundary has just created a technology.
C1_Witness ==
  /\ last.op = "create" /\ last.coll = "technologies" /\ calls > 0
  /\ last.input.name = V("Docker")

\* C2: in every collection the ids create returns start at 1 and each is
\* greater than every id returned before it, so none is returned twice.
C2_IdsIncrease ==
  \A c \in Collections :
    /\ Len(issued[c]) > 0 => issued[c][1] = 1
    /\ \A i, j \in 1..Len(issued[c]) : i < j => issued[c][i] < issued[c][j]
\* The boundary has created technologies on top of the seeded ones.
C2_Witness ==
  /\ calls = MaxCalls /\ last.op = "create" /\ last.coll = "technologies"
  /\ Len(issued["technologies"]) >= 3

\* C3: in every collection the length of list() is the number of create
\* calls since initialization, whatever updates and reads took place.
C3_ListLength ==
  \A c \in Collections :
    List(c).kind = "value" /\ Len(List(c).val) = Len(issued[c])
\* An update of an existing technology has just ended.
C3_Witness ==
  /\ last.op = "update" /\ last.coll = "technologies"
  /\ last.ret.kind = "value" /\ Len(technologies) >= 2

\* C4: searchTechnologies with an empty or an all-blank query returns the
\* sequence getTechnologies returns: the same technologies in the same order.
C4_BlankSearch ==
  (last.op = "search" /\ last.query \in {"", "   "}) =>
    last.ret.kind = "value" /\ last.ret.val = MapValues(technologies)
\* A search with a query of blanks over a store of several technologies.
C4_Witness ==
  /\ last.op = "search" /\ last.query = "   "
  /\ last.ret.kind = "value" /\ Len(last.ret.val) >= 3

\* Whether s contains q when case is ignored: some stretch of s of the
\* length of q differs from q in case only.
ContainsIgnoringCase(s, q) ==
  \E i \in 1..(Len(s) - Len(q) + 1) :
    toLowerCase(SubSeq(s, i, i + Len(q) - 1)) = toLowerCase(q)
\* Whether the name, the description or a tag of a technology contains q.
MatchesAnyField(tech, q) ==
  \/ Has(tech, "name") /\ tech.name # Null
       /\ ContainsIgnoringCase(Val(tech.name), q)
  \/ Has(tech, "description") /\ tech.description # Null
       /\ ContainsIgnoringCase(Val(tech.description), q)
  \/ Has(tech, "tags") /\ tech.tags # Null
       /\ \E i \in 1..Len(Val(tech.tags)) :
            ContainsIgnoringCase(Val(tech.tags)[i], q)

\* C5: for a query that is not blank searchTechnologies returns, in the order
\* of getTechnologies, exactly the technologies whose name, description or
\* one of whose tags contains the query, case ignored.
C5_SearchMatches ==
  (last.op = "search" /\ last.query \notin {"", "   "}) =>
    /\ last.ret.kind = "value"
    /\ last.ret.val =
         SelectSeq(MapValues(technologies),
                   LAMBDA t : MatchesAnyField(t, last.query))

\* C6: an update of an existing id changes only the fields its partial
\* input holds: every other field of the entity keeps its value, no field
\* is added, and every other entity of the collection is unchanged.
C6_UpdateFrame ==
  [][ (last'.op = "update" /\ last'.ret.kind = "value") =>
        LET old == MapOf(last'.coll)
            new == MapOfNext(last'.coll)
        IN /\ Len(new) = Len(old)
           /\ \A j \in 1..Len(old) :
                /\ new[j].key = old[j].key
                /\ old[j].key # last'.id => new[j] = old[j]
                /\ old[j].key = last'.id =>
                     /\ DOMAIN new[j].value =
                          DOMAIN old[j].value \cup DOMAIN last'.input
                     /\ \A f \in DOMAIN old[j].value \ DOMAIN last'.input :
                          new[j].value[f] = old[j].value[f] ]_vars
\* update(id, {name: "X"}) on an existing technology has just ended.
C6_Witness ==
  /\ last.op = "update" /\ last.coll = "technologies"
  /\ last.ret.kind = "value" /\ last.input = [name |-> V("X")]
  /\ last.ret.val.name = V("X")

\* C7: an update of an id the collection does not hold returns undefined
\* and leaves every map and every id counter as it was.
C7_UpdateMissing ==
  [][ (last'.op = "update" /\ ~MapHas(MapOf(last'.coll), last'.id)) =>
        last'.ret.kind = "undefined" /\ UNCHANGED storeVars ]_vars
\* An update of the id the next create would assign has returned undefined.
C7_Witness ==
  /\ last.op = "update" /\ last.coll = "technologies"
  /\ last.id = techCurrentId /\ last.ret.kind = "undefined"

\* C8: get of an id the collection does not hold (0, a negative id, an id
\* not yet assigned) returns undefined and raises no error, and get leaves
\* every map and every id counter as it was.
C8_GetMissing ==
  [][ last'.op = "get" =>
        /\ UNCHANGED storeVars
        /\ ~MapHas(MapOf(last'.coll), last'.id) =>
             last'.ret.kind = "undefined" ]_vars
\* A get of a negative id has returned undefined.
C8_Witness ==
  /\ last.op = "get" /\ last.coll = "technologies" /\ last.id = -1
  /\ last.ret.kind = "undefined"

\* The value create is to store for an optional field: the one the input
\* provides, or the default when the input has none.
Provided(input, f, default) == IF Has(input, f) THEN input[f] ELSE default

\* C9: create stores every provided value of an optional field as given and
\* the default where the input has none: website, tags, custom_properties
\* of a technology (null, the empty sequence, null) and the color of a
\* quadrant or ring (null).
C9_CreateDefaults ==
  LET stored == Get(last.coll, last.id).val IN
  /\ (last.op = "create" /\ last.coll = "technologies") =>
       /\ stored.website = Provided(last.input, "website", Null)
       /\ stored.tags = Provided(last.input, "tags", V(<<>>))
       /\ stored.custom_properties =
            Provided(last.input, "custom_properties", Null)
  /\ (last.op = "create" /\ last.coll \in {"quadrants", "rings"}) =>
       stored.color = Provided(last.input, "color", Null)

\* The names of the quadrants and of the rings the store holds.
QuadrantNames == {quadrants[i].value.name : i \in 1..Len(quadrants)}
RingNames == {rings[i].value.name : i \in 1..Len(rings)}
\* The store of the scenario: quadrants Techniques, Tools, Frameworks,
\* Platforms and rings Adopt, Trial, Assess, Hold.
ScenarioStore ==
  /\ pc = "ready"
  /\ QuadrantNames =
       {V("Techniques"), V("Tools"), V("Frameworks"), V("Platforms")}
  /\ RingNames = {V("Adopt"), V("Trial"), V("Assess"), V("Hold")}
\* createTechnology({name: "Kubernetes", quadrant: 2, ring: 0}) has ended.
KubernetesCreated ==
  /\ last.op = "create" /\ last.coll = "technologies"
  /\ last.input = [name |-> V("Kubernetes"), quadrant |-> V(2), ring |-> V(0)]

\* C10: in the store of the scenario, get on the id createTechnology
\* returned for {name: "Kubernetes", quadrant: 2, ring: 0} yields
\* quadrant 2, ring 0, tags [], website null and custom_properties null.
C10_Kubernetes ==
  (ScenarioStore /\ KubernetesCreated) =>
    LET got == getTechnology(last.ret.val.id) IN
    /\ got.kind = "value"
    /\ got.val.quadrant = V(2)
    /\ got.val.ring = V(0)
    /\ Has(got.val, "tags") /\ got.val.tags = V(<<>>)
    /\ Has(got.val, "website") /\ got.val.website = Null
    /\ Has(got.val, "custom_properties") /\ got.val.custom_properties = Null
\* The scenario has taken place.
C10_Witness == ScenarioStore /\ KubernetesCreated /\ calls > 0

\* C11: after an update of an existing id every field the partial input
\* holds has the value of the input, an explicit null included: after
\* update(id, {website: null}) get(id).website is null.
C11_UpdateOverwrites ==
  (last.op = "update" /\ last.ret.kind = "value") =>
    LET got == Get(last.coll, last.id) IN
    /\ got.kind = "value"
    /\ \A f \in DOMAIN last.input :
         Has(got.val, f) /\ got.val[f] = last.input[f]
\* The first call of the boundary was update(2, {website: null}) on the
\* seeded technology of id 2, whose website was "https://angular.io".
C11_Witness ==
  /\ calls = 1 /\ last.op = "update" /\ last.coll = "technologies"
  /\ last.id = 2 /\ last.input = [website |-> Null]
  /\ defaultTechnologies[1].website = V("https://angular.io")
  /\ getTechnology(2).val.name = defaultTechnologies[1].name
  /\ getTechnology(2).val.website = Null

\* C12: the store validates no reference: createTechnology, and
\* updateTechnology of an existing id, succeed for every quadrant and ring
\* value, negative or beyond the stored entries included, store the value
\* as given, and leave the quadrant and ring collections as they were.
C12_NoReferenceCheck ==
  [][ ( /\ last'.coll = "technologies"
        /\ \/ last'.op = "create"
           \/ last'.op = "update" /\ MapHas(technologies, last'.id) )
      => /\ last'.ret.kind = "value"
         /\ MapHas(technologies', last'.id)
         /\ \A f \in {"quadrant", "ring"} :
              Has(last'.input, f) =>
                /\ Has(last'.ret.val, f)
                /\ last'.ret.val[f] = last'.input[f]
                /\ technologies'[MapIndex(technologies', last'.id)].value[f]
                     = last'.input[f]
         /\ UNCHANGED <<quadrants, rings, quadrantCurrentId, ringCurrentId>>
    ]_vars
\* A technology of quadrant 9 and ring -1 was created, and is stored so,
\* while eight quadrants and eight rings are stored.
C12_Witness ==
  /\ last.op = "create" /\ last.coll = "technologies"
  /\ last.input.quadrant = V(9) /\ last.input.ring = V(-1)
  /\ Len(quadrants) = 8 /\ Len(rings) = 8
  /\ getTechnology(last.id).kind = "value"
  /\ getTechnology(last.id).val.quadrant = V(9)
  /\ getTechnology(last.id).val.ring = V(-1)

\* C13: every call of linkTechnologyToProject succeeds and appends one new
\* link under the next link id, with technology_id and project_id as given,
\* whether or not the technology and the project exist; the technology and
\* project collections are not touched.  Two calls with the same pair so
\* leave two stored links of different ids.
C13_LinkAlwaysCreates ==
  [][ ( /\ calls' = calls + 1
        /\ last'.op = "create" /\ last'.coll = "technologyProjects" )
      => /\ last'.ret.kind = "value"
         /\ last'.id = techProjectCurrentId
         /\ techProjectCurrentId' = techProjectCurrentId + 1
         /\ ~MapHas(technologyProjects, last'.id)
         /\ technologyProjects'
              = Append(technologyProjects,
                       [key |-> last'.id, value |-> last'.ret.val])
         /\ last'.ret.val.id = last'.id
         /\ last'.ret.val.technology_id = last'.input.technology_id
         /\ last'.ret.val.project_id = last'.input.project_id
         /\ UNCHANGED <<technologies, projects>>
    ]_vars
\* Two links of technology 99 and project -1, neither of which exists, are
\* stored under different ids.
C13_Witness ==
  /\ ~MapHas(technologies, 99) /\ ~MapHas(projects, -1)
  /\ \E i, j \in 1..Len(technologyProjects) :
       /\ technologyProjects[i].key # technologyProjects[j].key
       /\ technologyProjects[i].value.id # technologyProjects[j].value.id
       /\ technologyProjects[i].value.technology_id = V(99)
       /\ technologyProjects[j].value.technology_id = V(99)
       /\ technologyProjects[i].value.project_id = V(-1)
       /\ technologyProjects[j].value.project_id = V(-1)

\* C14: every store operation is total: no get, list, create, update or
\* searchTechnologies call raises an error, in any state a sequence of
\* creates and updates reaches (updates that set a technology's name,
\* description or tags to null included); not-found is the only outcome
\* that is not a success.
C14_Total == last.ret.kind # "throws"

\* The step ends a create or an update that returned an entity of
\* collection c and id id.
Wrote(c, id) ==
  /\ last'.op \in {"create", "update"}
  /\ last'.coll = c /\ last'.id = id
  /\ last'.ret.kind = "value"
\* The step is the timer callback, storing link id among its new links.
Linked(c, id) ==
  /\ last'.op = "timer" /\ timer = "pending" /\ timer' = "fired"
  /\ c = "technologyProjects"
  /\ id \in techProjectCurrentId .. (techProjectCurrentId' - 1)
\* What list() of collection c returns after the step.
ListNext(c) == MapValues(MapOfNext(c))

\* C15: reads reflect the latest completed write.  The step that ends a
\* create or update of an id returning e leaves get(id) equal to e and e in
\* list(), for an update at the position the previous version had and for a
\* create at the end; every other step leaves get(id) of every id as it
\* was, so e stays visible until the next write to that id; and a get or
\* list step returns what the store holds.
C15_ReadsSeeWrites ==
  [][ /\ \A c \in Collections :
           LET before == MapOf(c)
               after == MapOfNext(c)
               listed == ListNext(c)
           IN
           \* a map left as it was answers every get as before
           \/ /\ after = before
              /\ ~(last'.coll = c /\ last'.op \in {"create", "update"})
           \/ \A id \in {after[i].key : i \in 1..Len(after)}
                          \cup {before[i].key : i \in 1..Len(before)} :
                IF Wrote(c, id)
                THEN /\ MapGet(after, id) = last'.ret
                     /\ \E i \in 1..Len(after) :
                          /\ listed[i] = last'.ret.val
                          /\ \A j \in 1..Len(after) :
                               after[j].key = id => j = i
                          /\ IF MapHas(before, id)
                             THEN /\ i = MapIndex(before, id)
                                  /\ Len(after) = Len(before)
                             ELSE /\ i = Len(before) + 1
                                  /\ Len(after) = Len(before) + 1
                ELSE IF Linked(c, id)
                THEN MapGet(after, id).kind = "value"
                ELSE MapGet(after, id) = MapGet(before, id)
      /\ last'.op = "get" =>
           last'.ret = MapGet(MapOfNext(last'.coll), last'.id)
      /\ last'.op = "list" =>
           last'.ret = Value(ListNext(last'.coll))
    ]_vars
\* update(1, {name: "X"}) returned e, the call after it was get(1), and
\* get(1) returned e.
C15_Witness ==
  /\ calls = 2 /\ last.op = "get" /\ last.coll = "technologies"
  /\ last.id = 1 /\ last.ret.kind = "value"
  /\ last.ret.val.name = V("X")
  /\ last.ret = getTechnology(1)
  /\ seedTechnologies[1].name # V("X")

\* C16: each store operation is atomic.  In every state any interleaving of
\* the calls reaches, the un-awaited calls of initializeData and the timer
\* callback included: no two creates on a collection were given the same
\* id, every id a create was given holds an entity of that id (no create
\* is lost or overwritten by another), and the counter of a collection is
\* never ahead of the stored entities.
C16_Atomic ==
  \A c \in Collections :
    /\ \A i, j \in 1..Len(issued[c]) : i # j => issued[c][i] # issued[c][j]
    /\ Len(MapOf(c)) = Len(issued[c])
    /\ \A i \in 1..Len(issued[c]) :
         /\ MapOf(c)[i].key = issued[c][i]
         /\ MapOf(c)[i].value.id = issued[c][i]
    /\ CurrentIdOf(c) = Len(MapOf(c)) + 1
\* Two technologies were created through the boundary while the timer
\* callback of initializeData was still outstanding.
C16_Witness ==
  /\ timer = "pending" /\ calls >= 2
  /\ last.op = "create" /\ last.coll = "technologies"
  /\ Len(issued["technologies"]) >= 2
  /\ issued["technologies"][Len(issued["technologies"])] = last.id
  /\ issued["technologies"][Len(issued["technologies"]) - 1] = last.id - 1
  /\ getTechnology(last.id - 1).val.name \in
       {t.name : t \in TechnologyInputs}
  /\ \A i \in 1..Len(seedTechnologies) :
       getTechnology(last.id - 1).val.name # seedTechnologies[i].name
  /\ \A i \in 1..Len(defaultTechnologies) :
       getTechnology(last.id - 1).val.name # defaultTechnologies[i].name

\* The quadrants (rings) initializeData creates, in the order of its calls.
SeededQuadrants == seedQuadrants \o defaultQuadrants
SeededRings == seedRings \o defaultRings
\* The first Len(seeded) entities of map m are the seeded ones.
HoldsSeeded(m, seeded) ==
  /\ Len(m) >= Len(seeded)
  /\ \A i \in 1..Len(seeded) : m[i].value.name = seeded[i].name

\* C17: during initializeData all seeded quadrants and all seeded rings are
\* stored before the first technology is created: in every state in which
\* the technology collection is not empty, the quadrant and ring
\* collections hold every seeded quadrant and ring.
C17_QuadrantsAndRingsFirst ==
  Len(technologies) > 0 =>
    /\ HoldsSeeded(quadrants, SeededQuadrants)
    /\ HoldsSeeded(rings, SeededRings)

\* C18: the delayed link step runs only after all seeded projects were
\* created: in the step in which the timer callback calls
\* linkTechnologyToProject, every project_id of a seeded link (they are
\* 1..7) and every technology_id of one is the id of a stored entity, so no
\* seeded link dangles.
C18_SeedLinksResolve ==
  [][ (timer = "pending" /\ timer' = "fired") =>
        /\ {Val(techProjectLinks[i].project_id) :
              i \in 1..Len(techProjectLinks)} = 1..7
        /\ \A i \in 1..Len(defaultProjects) :
             MapHas(projects, i + 1)
        /\ \A i \in 1..Len(techProjectLinks) :
             /\ MapHas(projects, Val(techProjectLinks[i].project_id))
             /\ MapHas(technologies, Val(techProjectLinks[i].technology_id))
        /\ \A i \in 1..Len(technologyProjects') :
             ~MapHas(technologyProjects, technologyProjects'[i].key) =>
               /\ MapHas(projects',
                         Val(technologyProjects'[i].value.project_id))
               /\ MapHas(technologies',
                         Val(technologyProjects'[i].value.technology_id))
    ]_vars
\* The callback has run: the seeded links are stored, the one of the
\* largest technology_id, 33, among them, and technology 33 is stored.
C18_Witness ==
  /\ timer = "fired"
  /\ Len(technologyProjects) >= Len(techProjectLinks)
  /\ \E i \in 1..Len(technologyProjects) :
       /\ technologyProjects[i].value.technology_id = V(33)
       /\ technologyProjects[i].value.project_id = V(7)
  /\ MapHas(technologies, 33) /\ MapHas(projects, 7)

\* C19: list() returns the entities in insertion order, which is ascending
\* id order: in every state the ids of the sequence list() returns are
\* strictly increasing, and an update of an existing entity leaves it at
\* the position it had.
C19_ListOrder ==
  /\ [](\A c \in Collections :
          LET listed == List(c).val IN
          \A i \in 1..(Len(listed) - 1) : listed[i].id < listed[i + 1].id)
  /\ [][ (last'.op = "update" /\ last'.ret.kind = "value") =>
           /\ MapHas(MapOf(last'.coll), last'.id)
           /\ MapHas(MapOfNext(last'.coll), last'.id)
           /\ MapIndex(MapOfNext(last'.coll), last'.id)
                = MapIndex(MapOf(last'.coll), last'.id)
           /\ ListNext(last'.coll)[MapIndex(MapOf(last'.coll), last'.id)].id
                = last'.id
       ]_vars
\* Technology 1 was updated while later technologies are stored, and is
\* still the first entity of list().
C19_Witness ==
  /\ last.op = "update" /\ last.coll = "technologies" /\ last.id = 1
  /\ last.ret.kind = "value"
  /\ Len(getTechnologies.val) >= 2
  /\ getTechnologies.val[1] = last.ret.val
  /\ getTechnologies.val[1].id = 1
  /\ getTechnologies.val[2].id = 2

\* The projects initializeData creates, in the order of its calls.
SeededProjects == <<techRadar>> \o defaultProjects
\* Construction has returned and the timer callback has not run yet.
Constructed == pc = "ready" /\ timer = "pending"

\* C20 as stated: project creation is deferred together with the link
\* step: when construction has returned and the callback has not run, the
\* project collection holds no seeded project.
C20_ProjectsDeferred ==
  Constructed =>
    \A i \in 1..Len(projects) : \A k \in 1..Len(SeededProjects) :
      projects[i].value.name # SeededProjects[k].name
\* C20, amended: only the link step is deferred.  When construction has
\* returned and the callback has not run, the project collection already
\* holds the sample project and the seven default projects under the ids
\* 1..8, and the link collection holds no seeded link (nothing but the
\* links made through the boundary since).
C20_OnlyLinksDeferred ==
  Constructed =>
    /\ Len(projects) >= Len(SeededProjects)
    /\ \A k \in 1..Len(SeededProjects) :
         /\ projects[k].key = k
         /\ projects[k].value.id = k
         /\ projects[k].value.name = SeededProjects[k].name
    /\ Len(technologyProjects) <= calls
    /\ \A i \in 1..Len(technologyProjects) :
         \E insertTechProject \in LinkInputs :
           /\ technologyProjects[i].value.technology_id
                = insertTechProject.technology_id
           /\ technologyProjects[i].value.project_id
                = insertTechProject.project_id
\* Construction has just returned: eight projects, no link.
C20_Witness ==
  /\ Constructed /\ calls = 0
  /\ Len(projects) = 8
  /\ projects[2].value.name = V("E-commerce Platform Rewrite")
  /\ projects[8].value.name = V("Recommendation Engine")
  /\ technologyProjects = <<>>

\* The id counter of a collection after the step.
CurrentIdOfNext(c) ==
  CASE c = "technologies" -> techCurrentId'
    [] c = "quadrants" -> quadrantCurrentId'
    [] c = "rings" -> ringCurrentId'
    [] c = "projects" -> projectCurrentId'
    [] c = "technologyProjects" -> techProjectCurrentId'

\* C21: the collections are independent.  A step that ends a create or an
\* update on a collection leaves the map and the id counter of the four
\* others as they were; an update, get, list or search step leaves every
\* id counter as it was; a create step advances the counter of its own
\* collection by exactly 1.
C21_Independent ==
  [][ /\ (last' # last /\ last'.op \in {"create", "update"}) =>
           \A c \in Collections \ {last'.coll} :
             /\ MapOfNext(c) = MapOf(c)
             /\ CurrentIdOfNext(c) = CurrentIdOf(c)
      /\ last'.op \in {"update", "get", "list", "search"} =>
           \A c \in Collections : CurrentIdOfNext(c) = CurrentIdOf(c)
      /\ (last' # last /\ last'.op = "create") =>
           /\ CurrentIdOfNext(last'.coll) = CurrentIdOf(last'.coll) + 1
           /\ Len(MapOfNext(last'.coll)) = Len(MapOf(last'.coll)) + 1
      /\ (last'.op = "update" /\ last'.ret.kind = "value") =>
           Len(MapOfNext(last'.coll)) = Len(MapOf(last'.coll))
    ]_vars
\* A ring was created through the boundary right after a technology was
\* updated: the technologies hold the update and the counters of the
\* other collections are where seeding left them.
C21_Witness ==
  /\ calls = 2 /\ timer = "pending"
  /\ last.op = "create" /\ last.coll = "rings"
  /\ ringCurrentId = Len(seedRings) + Len(defaultRings) + 2
  /\ quadrantCurrentId = Len(seedQuadrants) + Len(defaultQuadrants) + 1
  /\ projectCurrentId = Len(defaultProjects) + 2
  /\ techProjectCurrentId = 1
  /\ getTechnology(1).val.name = V("X")

\* How many technologies initializeData creates.
SeededTechnologies == Len(seedTechnologies) + Len(defaultTechnologies)

\* C22: once seeding has completed, every seeded technology holds a
\* quadrant q with 0 <= q < number of seeded quadrants and a ring r with
\* 0 <= r < number of seeded rings (already of the four created at lines
\* 17-64), so that list() of quadrants has an entry at index q and list()
\* of rings one at index r.
C22_SeedReferencesInRange ==
  pc = "ready" =>
    /\ Len(technologies) >= SeededTechnologies
    /\ \A i \in 1..SeededTechnologies :
         LET tech == getTechnologies.val[i] IN
         /\ tech.quadrant # Null /\ tech.ring # Null
         /\ Val(tech.quadrant) \in 0..(Len(seedQuadrants) - 1)
         /\ Val(tech.ring) \in 0..(Len(seedRings) - 1)
         /\ Val(tech.quadrant) + 1 \in DOMAIN getQuadrants.val
         /\ Val(tech.ring) + 1 \in DOMAIN getRings.val
\* Seeding has completed with all seventy technologies, among them one of
\* the last quadrant and one of the last ring.
C22_Witness ==
  /\ pc = "ready" /\ Len(technologies) = SeededTechnologies
  /\ SeededTechnologies = 70
  /\ \E i \in 1..Len(technologies) :
       technologies[i].value.quadrant = V(Len(seedQuadrants) - 1)
  /\ \E i \in 1..Len(technologies) :
       technologies[i].value.ring = V(Len(seedRings) - 1)

\* The technology's ring (quadrant) value is the index of no loaded ring
\* (quadrant).
RingOutOfRange(tech) ==
  ArrayAt(viewRings, Field(tech, "ring")).kind = "undefined"
QuadrantOutOfRange(tech) ==
  ArrayAt(viewQuadrants, Field(tech, "quadrant")).kind = "undefined"

\* C23: plotting never fails on a technology whose quadrant or ring value
\* is out of range: whenever the view has its data, the effect has run to
\* its end and drawn one dot per technology of the filtered list, and the
\* fill of the dot of a technology whose ring is out of range is what the
\* default colour table holds at that index (nothing when it holds no
\* entry there), no error being raised.
C23_PlotCompletes ==
  (pc = "view" /\ ~loading) =>
    LET filteredTechs == FilteredTechs(data, selectedQuadrant) IN
    /\ svg.kind = "value"
    /\ Len(svg.val) = Len(filteredTechs)
    /\ \A i \in 1..Len(filteredTechs) :
         /\ svg.val[i].name = Field(filteredTechs[i], "name")
         /\ RingOutOfRange(filteredTechs[i]) =>
              svg.val[i].fill =
                IF ArrayAt(RING_COLORS, Field(filteredTechs[i], "ring")).kind
                     = "value"
                THEN V(RING_COLORS[Val(filteredTechs[i].ring) + 1])
                ELSE Undef
\* The view shows all technologies, among them one of quadrant 9 and ring
\* -1 while eight quadrants and eight rings are loaded: its dot is drawn,
\* without position and without fill.
C23_Witness ==
  /\ pc = "view" /\ ~loading /\ selectedQuadrant = Null
  /\ Len(viewQuadrants) = 8 /\ Len(viewRings) = 8
  /\ svg.kind = "value"
  /\ \E i \in 1..Len(data) :
       /\ Field(data[i], "quadrant") = V(9) /\ Field(data[i], "ring") = V(-1)
       /\ QuadrantOutOfRange(data[i]) /\ RingOutOfRange(data[i])
       /\ svg.val[i].name = data[i].name
       /\ ~svg.val[i].positioned
       /\ svg.val[i].fill = Undef

StoredIds(c) == {MapOf(c)[i].key : i \in 1..Len(MapOf(c))}

\* C25: in every state from the start of initializeData on and for every
\* collection, the stored ids are exactly 1..(nextId - 1): the counter is
\* the size of the collection plus 1, no id is left out, and no stored id
\* reaches the counter.
C25_IdsAreDense ==
  \A c \in Collections :
    /\ StoredIds(c) = 1..(CurrentIdOf(c) - 1)
    /\ Cardinality(StoredIds(c)) = Len(MapOf(c))
    /\ CurrentIdOf(c) = Len(MapOf(c)) + 1
    /\ \A id \in StoredIds(c) : id < CurrentIdOf(c)
\* The timer callback has added its links after two links were made
\* through the boundary: the link ids are 1..39, and the technologies' ids
\* run up to their counter.
C25_Witness ==
  /\ timer = "fired" /\ calls = 2
  /\ techProjectCurrentId = Len(techProjectLinks) + 3
  /\ StoredIds("technologyProjects") = 1..(Len(techProjectLinks) + 2)
  /\ StoredIds("technologies") = 1..(techCurrentId - 1)
  /\ techCurrentId > 1

\* C26: the timer callback runs exactly once per store: it runs from the
\* pending timer only, and once it has fired it stays fired.  When it runs
\* it adds exactly one link per entry of techProjectLinks, in order, under
\* the ids from the counter on.  No step, the callback included, removes or
\* changes a stored link, so the links made through linkTechnologyToProject
\* before it ran are kept; and in every state the ids of the links are
\* pairwise distinct.
C26_CallbackOnce ==
  /\ [](\A i, j \in 1..Len(technologyProjects) :
          i # j =>
            /\ technologyProjects[i].key # technologyProjects[j].key
            /\ technologyProjects[i].value.id
                 # technologyProjects[j].value.id)
  /\ [][ /\ timer = "fired" => timer' = "fired"
         /\ timer' = "fired" => timer \in {"pending", "fired"}
         /\ Len(technologyProjects') >= Len(technologyProjects)
         /\ \A i \in 1..Len(technologyProjects) :
              technologyProjects'[i] = technologyProjects[i]
         /\ (timer = "pending" /\ timer' = "fired") =>
              /\ Len(technologyProjects')
                   = Len(technologyProjects) + Len(techProjectLinks)
              /\ \A k \in 1..Len(techProjectLinks) :
                   LET link == technologyProjects'[Len(technologyProjects) + k]
                   IN /\ link.key = techProjectCurrentId + k - 1
                      /\ link.value.id = link.key
                      /\ link.value.technology_id
                           = techProjectLinks[k].technology_id
                      /\ link.value.project_id
                           = techProjectLinks[k].project_id
       ]_vars
\* The callback has run after two links were made through the boundary:
\* these are still the first two links, the 37 seeded ones follow.
C26_Witness ==
  /\ timer = "fired" /\ last.op = "timer"
  /\ Len(technologyProjects) = Len(techProjectLinks) + 2
  /\ technologyProjects[1].value.technology_id = V(99)
  /\ technologyProjects[1].value.id = 1
  /\ technologyProjects[2].value.id = 2
  /\ technologyProjects[3].value.technology_id
       = techProjectLinks[1].technology_id
  /\ technologyProjects[Len(technologyProjects)].key
       = Len(techProjectLinks) + 2

\* C27: the step of selectTechFromSearch(tech) leaves tech selected and the
\* dropdown closed (searchResults null), and the quadrant filter null if
\* it was null before and equal to tech.quadrant otherwise; so wherever
\* the technology is among the view's technologies, it is among the
\* filtered ones that are plotted.
C27_SelectedIsShown ==
  [][ (handled'.op = "selectTechFromSearch" /\ searchResults # Null) =>
        /\ selectedTech' # Null
        /\ \E i \in 1..Len(Val(searchResults)) :
             Val(selectedTech') = Val(searchResults)[i]
        /\ searchResults' = Null
        /\ selectedQuadrant = Null => selectedQuadrant' = Null
        /\ selectedQuadrant # Null =>
             selectedQuadrant' = Field(Val(selectedTech'), "quadrant")
        /\ LET shown == FilteredTechs(data', selectedQuadrant') IN
           \A i \in 1..Len(data') :
             data'[i] = Val(selectedTech') =>
               \E j \in 1..Len(shown) : shown[j] = data'[i]
    ]_vars
\* A technology of quadrant 9 was chosen from the dropdown while a quadrant
\* button was pressed: the filter is now 9, which no button sets, and the
\* technology is plotted.
C27_Witness ==
  /\ handled.op = "selectTechFromSearch"
  /\ searchResults = Null
  /\ selectedTech # Null
  /\ Field(Val(selectedTech), "quadrant") = V(9)
  /\ selectedQuadrant = V(9)
  /\ selectedQuadrant \notin QuadrantButtons
  /\ svg.kind = "value"
  /\ \E i \in 1..Len(svg.val) : svg.val[i].selected

\* The technologies the view has loaded.
Loaded == {data[i] : i \in 1..Len(data)}
\* How searchResults changes: it becomes a new array only by a search
\* submission with a non-empty query; a submission with an empty query
\* and clearSearch set it to null, and clearSearch empties the query.
ResultsFromSubmission ==
  /\ (searchResults' # Null /\ searchResults' # searchResults) =>
       (handled'.op = "handleSearch" /\ searchQuery # "")
  /\ (handled'.op = "handleSearch" /\ searchQuery = "") =>
       searchResults' = Null
  /\ handled'.op = "clearSearch" =>
       (searchResults' = Null /\ searchQuery' = "")

\* C28 as stated: searchResults is non-null only as the result of a search
\* submission with a non-empty query, an empty submission and clearSearch
\* set it to null, clearSearch empties the query, and every technology in
\* a non-null searchResults is one of the currently loaded technologies.
C28_ResultsAreLoaded ==
  /\ [](searchResults # Null =>
          \A i \in 1..Len(Val(searchResults)) :
            Val(searchResults)[i] \in Loaded)
  /\ [][ResultsFromSubmission]_vars
\* C28, amended: the first three parts as stated; and every technology in
\* a non-null searchResults was one of the technologies loaded when the
\* search was submitted: the submission sets searchResults to technologies
\* of the loaded list, in its order, and no later step changes the array
\* but to null or by a new submission.
C28_ResultsWereLoaded ==
  [][ /\ ResultsFromSubmission
      /\ (handled'.op = "handleSearch" /\ ~handled'.threw
            /\ searchResults' # Null) =>
           /\ data' = data
           /\ \A i \in 1..Len(Val(searchResults')) :
                Val(searchResults')[i] \in Loaded
           /\ Val(searchResults')
                = SelectSeq(data, LAMBDA t :
                    \E i \in 1..Len(Val(searchResults')) :
                      Val(searchResults')[i] = t)
      /\ handled'.op \notin {"handleSearch", "clearSearch",
                             "selectTechFromSearch"} =>
           searchResults' = searchResults
    ]_vars
\* The dropdown still lists a technology found by the last submission
\* while, the query having been changed since, no technology is loaded.
C28_Witness ==
  /\ handled.op = "setSearchQuery" /\ loading /\ data = <<>>
  /\ searchResults # Null
  /\ Len(Val(searchResults)) > 0
  /\ Val(searchResults)[1] \notin Loaded

\* C29: the search filter of handleSearch and the store's
\* searchTechnologies agree: for every non-empty query, the filter over
\* the store's technologies gives what searchTechnologies gives (the same
\* list, or both fail), and a submission made while the view holds the
\* store's technologies leaves that list in searchResults.
C29_SearchesAgree ==
  /\ \A query \in ViewQueries \ {""} :
       ClientFilter(MapValues(technologies), query)
         = searchTechnologies(query)
  /\ (/\ handled.op = "handleSearch" /\ ~handled.threw
      /\ searchQuery # ""
      /\ data = MapValues(technologies)) =>
       searchResults = V(searchTechnologies(searchQuery).val)
====
